---- MODULE Spec2Model ----
(***************************************************************************)
(* Model of the book loaders of jkpjkpjkp/bw: src/book/epub.py (archive    *)
(* path), src/book/pdf.py (flat-file path) and src/book/_utils.py.         *)
(*                                                                         *)
(* Strings.  A Python str is modelled as its run-length encoding: a        *)
(* sequence of runs <<c, n>> (character c repeated n >= 1 times) in which   *)
(* adjacent runs hold different characters.  Every str has exactly one     *)
(* such encoding, so equality of encodings is equality of strings, and a   *)
(* 1200-character body costs one run.  Every string operation below is     *)
(* the Python operation, computed on the encoding.                         *)
(***************************************************************************)
EXTENDS Integers, Sequences, FiniteSets, TLC

\* ------------------------------------------------------------------ bounds
\* Text inputs of the normalization runs: at most MaxRuns runs, each of at
\* most MaxCount characters.
MaxRuns == 3
MaxCount == 3
\* Parser event sequences fed to the markup extractor: at most MaxEvents events.
MaxEvents == 3
\* Archives: a spine of at most MaxSpine references.
MaxSpine == 3
\* Flat-file documents: at most MaxPages pages.
MaxPages == 31

\* ----------------------------------------------------------------- strings
\* Python's None where a str is expected: a value no str encodes.
None == << <<"None", 0>> >>

\* bool(x) for x a str or None
Truthy(x) == x # None /\ x # <<>>

Min(S) == CHOOSE x \in S : \A y \in S : x <= y
Max(S) == CHOOSE x \in S : \A y \in S : x >= y

\* s + t
Cat(a, b) ==
    IF a = <<>> THEN b
    ELSE IF b = <<>> THEN a
    ELSE IF a[Len(a)][1] = b[1][1]
         THEN SubSeq(a, 1, Len(a) - 1)
                \o << <<b[1][1], a[Len(a)][2] + b[1][2]>> >>
                \o Tail(b)
         ELSE a \o b

\* c * n
Rep(c, n) == IF n = 0 THEN <<>> ELSE << <<c, n>> >>

\* Recursions over a sequence go by halves (left half, right half), which
\* keeps the evaluation shallow; the operations computed are associative.
Left(q) == SubSeq(q, 1, Len(q) \div 2)
Right(q) == SubSeq(q, (Len(q) \div 2) + 1, Len(q))

\* The str spelled by a sequence of characters.
RECURSIVE Str(_)
Str(cs) ==
    IF cs = <<>> THEN <<>>
    ELSE IF Len(cs) = 1 THEN Rep(cs[1], 1)
    ELSE Cat(Str(Left(cs)), Str(Right(cs)))

\* len(s)
RECURSIVE StrLen(_)
StrLen(t) ==
    IF t = <<>> THEN 0
    ELSE IF Len(t) = 1 THEN t[1][2]
    ELSE StrLen(Left(t)) + StrLen(Right(t))

\* The j-th smallest element of a set of numbers.
Nth(S, j) == CHOOSE x \in S : Cardinality({y \in S : y < x}) = j - 1

\* sep.join(parts), computed by halves: concatenation is associative
RECURSIVE join(_, _)
join(sep, parts) ==
    IF parts = <<>> THEN <<>>
    ELSE IF Len(parts) = 1 THEN parts[1]
    ELSE Cat(Cat(join(sep, Left(parts)), sep), join(sep, Right(parts)))

\* The characters str.strip() removes (those the model's alphabet holds).
Whitespace == {" ", "\t", "\n", "\r", "\f"}

\* s.strip()
strip(t) ==
    LET keep == {k \in 1..Len(t) : t[k][1] \notin Whitespace}
    IN  IF keep = {} THEN <<>> ELSE SubSeq(t, Min(keep), Max(keep))

UpperCase == <<"A","B","C","D","E","F","G","H","I","J","K","L","M",
               "N","O","P","Q","R","S","T","U","V","W","X","Y","Z">>
LowerCase == <<"a","b","c","d","e","f","g","h","i","j","k","l","m",
               "n","o","p","q","r","s","t","u","v","w","x","y","z">>

LowerChar(c) ==
    IF \E k \in 1..26 : UpperCase[k] = c
    THEN LowerCase[CHOOSE k \in 1..26 : UpperCase[k] = c]
    ELSE c

\* s.lower()
RECURSIVE lower(_)
lower(t) ==
    IF t = <<>> THEN <<>>
    ELSE IF Len(t) = 1 THEN Rep(LowerChar(t[1][1]), t[1][2])
    ELSE Cat(lower(Left(t)), lower(Right(t)))

DigitChars == <<"0","1","2","3","4","5","6","7","8","9">>

\* str(n) for a natural number n
RECURSIVE IntStr(_)
IntStr(n) ==
    IF n < 10 THEN Rep(DigitChars[n + 1], 1)
    ELSE Cat(IntStr(n \div 10), Rep(DigitChars[(n % 10) + 1], 1))

\* ----------------------------------------------------- text normalization
\* re.sub(r"[ \t]+", " ", text): every maximal stretch of spaces and tabs
\* becomes one space; the other runs stay.
sub_blanks(t) ==
    LET blank(k) == t[k][1] \in {" ", "\t"}
        heads == {k \in 1..Len(t) : ~blank(k) \/ k = 1 \/ ~blank(k - 1)}
    IN  [j \in 1..Cardinality(heads) |->
            IF blank(Nth(heads, j)) THEN <<" ", 1>> ELSE t[Nth(heads, j)]]

\* re.sub(r"\n{3,}", "\n\n", text)
sub_newlines(t) ==
    [k \in 1..Len(t) |->
        IF t[k][1] = "\n" /\ t[k][2] >= 3 THEN <<"\n", 2>> ELSE t[k]]

\* A slip: spaces are collapsed first and tabs turned into spaces afterwards.
RECURSIVE TabsToSpaces(_)
TabsToSpaces(t) ==
    IF t = <<>> THEN <<>>
    ELSE IF Len(t) = 1 THEN Rep(IF t[1][1] = "\t" THEN " " ELSE t[1][1], t[1][2])
    ELSE Cat(TabsToSpaces(Left(t)), TabsToSpaces(Right(t)))

_normalize_text_tabs_late(text) ==
    strip(sub_newlines(TabsToSpaces(
        [k \in 1..Len(text) |->
            IF text[k][1] = " " THEN <<" ", 1>> ELSE text[k]])))

\* pdf.py: _normalize_text
_normalize_text(text) == strip(sub_newlines(sub_blanks(text)))

\* epub.py: _TextExtractor.get_text
get_text(parts) == strip(sub_newlines(sub_blanks(join(<<>>, parts))))

\* --------------------------------------------------- markup text extractor
SkipTags == {"script", "style", "head"}
BlockTags == {"p", "div", "br", "h1", "h2", "h3", "h4", "h5", "h6", "li"}

\* The extractor object: [parts |-> self._text_parts, depth |-> self._skip_depth]
TextExtractor == [parts |-> <<>>, depth |-> 0]

\* A slip: the newline of a block-level element is written at its start tag
\* as well.
handle_starttag_newline(self, tag) ==
    IF tag \in SkipTags THEN [self EXCEPT !.depth = @ + 1]
    ELSE IF tag \in BlockTags
         THEN [self EXCEPT !.parts = Append(@, Rep("\n", 1))]
         ELSE self

handle_starttag(self, tag) ==
    IF tag \in SkipTags THEN [self EXCEPT !.depth = @ + 1] ELSE self

handle_endtag(self, tag) ==
    IF tag \in SkipTags THEN [self EXCEPT !.depth = @ - 1]
    ELSE IF tag \in BlockTags
         THEN [self EXCEPT !.parts = Append(@, Rep("\n", 1))]
         ELSE self

\* A slip: the skip depth is not consulted.
handle_data_any(self, data) == [self EXCEPT !.parts = Append(@, data)]

handle_data(self, data) ==
    IF self.depth = 0 THEN [self EXCEPT !.parts = Append(@, data)] ELSE self

\* One parser event <<kind, payload>> dispatched to its handler, as
\* HTMLParser.feed does for each token of the markup.
Dispatch(self, ev) ==
    CASE ev[1] = "start" -> handle_starttag(self, ev[2])
      [] ev[1] = "end"   -> handle_endtag(self, ev[2])
      [] ev[1] = "data"  -> handle_data(self, ev[2])

\* parser.feed(html): the events dispatched in order
RECURSIVE feed(_, _)
feed(self, events) ==
    IF events = <<>> THEN self
    ELSE IF Len(events) = 1 THEN Dispatch(self, events[1])
    ELSE feed(feed(self, Left(events)), Right(events))

_extract_text_from_html(html) == get_text(feed(TextExtractor, html).parts)

\* ------------------------------------------------------- shared utilities
\* _utils.py: Chapter, Book
Chapter(title, text) == [title |-> title, text |-> text]
Book(title, author, chapters) ==
    [title |-> title, author |-> author, chapters |-> chapters]

\* _utils.py: NON_CONTENT_TITLES
NON_CONTENT_TITLES == {
    Str(<<"t","i","t","l","e"," ","p","a","g","e">>),
    Str(<<"t","i","t","l","e","p","a","g","e">>),
    Str(<<"c","o","v","e","r">>),
    Str(<<"c","o","p","y","r","i","g","h","t">>),
    Str(<<"d","e","d","i","c","a","t","i","o","n">>),
    Str(<<"a","c","k","n","o","w","l","e","d","g","m","e","n","t","s">>),
    Str(<<"a","c","k","n","o","w","l","e","d","g","e","m","e","n","t","s">>),
    Str(<<"n","o","t","e","s">>),
    Str(<<"i","n","d","e","x">>),
    Str(<<"b","i","b","l","i","o","g","r","a","p","h","y">>),
    Str(<<"r","e","f","e","r","e","n","c","e","s">>),
    Str(<<"a","b","o","u","t"," ","t","h","e"," ","a","u","t","h","o","r">>),
    Str(<<"a","l","s","o"," ","b","y">>),
    Str(<<"p","r","a","i","s","e"," ","f","o","r">>),
    Str(<<"c","o","n","t","e","n","t","s">>),
    Str(<<"t","a","b","l","e"," ","o","f"," ","c","o","n","t","e","n","t","s">>),
    Str(<<"p","h","o","t","o","g","r","a","p","h","s">>),
    Str(<<"p","h","o","t","o"," ","i","n","s","e","r","t">>),
    Str(<<"m","a","p","s">>),
    Str(<<"i","l","l","u","s","t","r","a","t","i","o","n","s">>) }

\* A slip: every title counts as content.
is_content_chapter_always(title) == TRUE

\* _utils.py: is_content_chapter
is_content_chapter(title) == strip(lower(title)) \notin NON_CONTENT_TITLES

\* The length floor of both loaders (epub.py line 209, pdf.py line 169).
MIN_CHAPTER_LEN == 500

\* ------------------------------------------------------------ archive path
\* A path inside the archive: "dir/name#frag" (dir and frag may be empty).
PathOf(dir, name, frag) == [dir |-> dir, name |-> name, frag |-> frag]

\* s.split("#")[0]
StripFragment(p) == [p EXCEPT !.frag = ""]

\* str(Path(p).parent)
Parent(p) == IF p.dir = "" THEN "." ELSE p.dir

\* f"{opf_dir}/{href}" when opf_dir is set and not ".", else href
Resolve(opf_dir, href) ==
    IF opf_dir # "" /\ opf_dir # "." THEN [href EXCEPT !.dir = opf_dir] ELSE href

Ok(v) == [err |-> "", val |-> v]
Err(e) == [err |-> e, val |-> <<>>]

\* zf.read(name).decode("utf-8"): the entry's document, or the exception.
ReadDecode(zf, name) ==
    IF name \notin DOMAIN zf.entries THEN Err("KeyError")
    ELSE IF ~zf.entries[name].bytes_ok THEN Err("UnicodeDecodeError")
    ELSE Ok(zf.entries[name])

CONTAINER_XML == PathOf("META-INF", "container.xml", "")

\* epub.py: _get_container_rootfile
_get_container_rootfile(zf) ==
    LET container == ReadDecode(zf, CONTAINER_XML)
    IN  IF container.err # "" THEN Err(container.err)
        ELSE IF ~container.val.xml_ok THEN Err("ParseError")
        ELSE IF ~container.val.has_rootfile THEN Err("ValueError")
        ELSE Ok(container.val.full_path)

\* A slip: the media type is not looked at.
IsHtmlType_any(media_type) == TRUE

\* "html" in media_type or "xhtml" in media_type
IsHtmlType(media_type) ==
    media_type \in {"application/xhtml+xml", "text/html"}

\* "ncx" in media_type or href.endswith(".ncx")
IsNcxItem(item) ==
    item.media_type = "application/x-dtbncx+xml" \/ item.href.name = "toc.ncx"

\* The manifest loop of _parse_opf: (id_to_href, ncx_href) after the items.
RECURSIVE ManifestLoop(_, _, _)
ManifestLoop(items, id_to_href, ncx_href) ==
    IF items = <<>> THEN [id_to_href |-> id_to_href, ncx_href |-> ncx_href]
    ELSE LET item == items[1]
         IN  IF IsHtmlType(item.media_type)
             THEN ManifestLoop(Tail(items),
                      [k \in DOMAIN id_to_href \cup {item.id} |->
                          IF k = item.id THEN item.href ELSE id_to_href[k]],
                      ncx_href)
             ELSE IF IsNcxItem(item)
                  THEN ManifestLoop(Tail(items), id_to_href, Ok(item.href))
                  ELSE ManifestLoop(Tail(items), id_to_href, ncx_href)

\* The spine loop of _parse_opf.
RECURSIVE SpineLoop(_, _)
SpineLoop(idrefs, id_to_href) ==
    IF idrefs = <<>> THEN <<>>
    ELSE IF idrefs[1] \in DOMAIN id_to_href
         THEN << <<idrefs[1], id_to_href[idrefs[1]]>> >>
                \o SpineLoop(Tail(idrefs), id_to_href)
         ELSE SpineLoop(Tail(idrefs), id_to_href)

\* epub.py: _parse_opf; ncx_href is Err("None") when no item names an index.
_parse_opf(zf, opf_path) ==
    LET opf == ReadDecode(zf, opf_path)
    IN  IF opf.err # "" THEN Err(opf.err)
        ELSE IF ~opf.val.xml_ok THEN Err("ParseError")
        ELSE LET m == ManifestLoop(opf.val.manifest, << >>, Err("None"))
             IN  Ok([title |-> IF Truthy(opf.val.title) THEN opf.val.title ELSE <<>>,
                     author |-> IF Truthy(opf.val.creator) THEN opf.val.creator ELSE <<>>,
                     spine_items |-> SpineLoop(opf.val.spine, m.id_to_href),
                     ncx_href |-> m.ncx_href])

\* The navPoint loop of _parse_ncx.
RECURSIVE NavLoop(_, _)
NavLoop(navpoints, href_to_title) ==
    IF navpoints = <<>> THEN href_to_title
    ELSE LET np == navpoints[1]
         IN  IF np.has_content /\ Truthy(np.label)
             THEN LET src == StripFragment(np.src)
                  IN  NavLoop(Tail(navpoints),
                          [k \in DOMAIN href_to_title \cup {src} |->
                              IF k = src THEN strip(np.label) ELSE href_to_title[k]])
             ELSE NavLoop(Tail(navpoints), href_to_title)

\* epub.py: _parse_ncx; only KeyError and ParseError are caught.
_parse_ncx(zf, ncx_path) ==
    LET ncx == ReadDecode(zf, ncx_path)
    IN  IF ncx.err = "KeyError" THEN Ok(<< >>)
        ELSE IF ncx.err # "" THEN Err(ncx.err)
        ELSE IF ~ncx.val.xml_ok THEN Ok(<< >>)
        ELSE Ok(NavLoop(ncx.val.navpoints, << >>))

\* An element as ElementTree holds it: its tag (the namespace is part of
\* the tag), the text before its first child (None when it has none) and
\* its children.
Tag(ns, local) == [ns |-> ns, local |-> local]
El(tag, text, kids) == [tag |-> tag, text |-> text, kids |-> kids]

\* The elements below el in document order (iter() without el itself).
RECURSIVE Descendants(_)
Descendants(el) ==
    LET upto[k \in 0..Len(el.kids)] ==
            IF k = 0 THEN <<>>
            ELSE upto[k - 1] \o <<el.kids[k]>> \o Descendants(el.kids[k])
    IN  upto[Len(el.kids)]

\* ET.fromstring(html), and on ParseError ET.fromstring(f"<root>{html}</root>"):
\* markup with one top-level element parses as it stands, other well-formed
\* markup inside the synthetic root.
ParseRoot(xml) ==
    IF ~xml.wellformed THEN Err("ParseError")
    ELSE IF Len(xml.tops) = 1 THEN Ok(xml.tops[1])
    ELSE Ok(El(Tag("", "root"), None, xml.tops))

TitleTags == <<"title", ".//h1", ".//h2", ".//h3">>

\* The text of the first of els with this tag, None when there is none.
FirstText(els, tag) ==
    LET hits == {k \in 1..Len(els) : els[k].tag = tag}
    IN  IF hits = {} THEN None ELSE els[Min(hits)].text

\* root.find(path).text: "title" looks among the children of root, ".//hN"
\* among everything below root; a tag without namespace is asked for.
Find(root, path) ==
    CASE path = "title" -> FirstText(root.kids, Tag("", "title"))
      [] path = ".//h1" -> FirstText(Descendants(root), Tag("", "h1"))
      [] path = ".//h2" -> FirstText(Descendants(root), Tag("", "h2"))
      [] path = ".//h3" -> FirstText(Descendants(root), Tag("", "h3"))

\* The search loop of _extract_chapter_title from tag number k on.
RECURSIVE TitleSearch(_, _, _)
TitleSearch(root, k, fallback) ==
    IF k > Len(TitleTags) THEN fallback
    ELSE LET text == Find(root, TitleTags[k])
         IN  IF Truthy(text) /\ strip(text) # <<>> /\ StrLen(strip(text)) < 100
             THEN strip(text)
             ELSE TitleSearch(root, k + 1, fallback)

\* epub.py: _extract_chapter_title
_extract_chapter_title(html, fallback) ==
    LET root == ParseRoot(html.xml)
    IN  IF root.err # "" THEN fallback ELSE TitleSearch(root.val, 1, fallback)

\* dict.get(key): the value, or None.
DictGet(d, key) == IF key \in DOMAIN d THEN d[key] ELSE None

\* f"Chapter {n}"
ChapterN(n) == Cat(Str(<<"C","h","a","p","t","e","r"," ">>), IntStr(n))


\* ----------------------------------------------------------- flat-file path
\* s[k] (1-based), or "" past the end
RECURSIVE CharAt(_, _)
CharAt(t, k) ==
    IF t = <<>> THEN ""
    ELSE IF Len(t) = 1 THEN (IF k <= t[1][2] THEN t[1][1] ELSE "")
    ELSE IF k <= StrLen(Left(t)) THEN CharAt(Left(t), k)
    ELSE CharAt(Right(t), k - StrLen(Left(t)))

\* The character classes of the heading patterns.
ReSpace == {" ", "\t", "\n", "\r", "\f"}
ReDigit == {DigitChars[k] : k \in 1..10}
ReWord == ReDigit \cup {LowerCase[k] : k \in 1..26}
                  \cup {UpperCase[k] : k \in 1..26} \cup {"_"}
Roman == {"i", "v", "x", "l", "c"}

\* The first position from p on whose character is not in class.
FirstNotIn(t, p, class) ==
    Min({q \in p..(StrLen(t) + 1) : CharAt(t, q) \notin class})

\* ^word\s+ matched ignoring case: the position after it, or 0.
WordThenSpace(t, word) ==
    IF \A j \in 1..Len(word) : LowerChar(CharAt(t, j)) = word[j]
    THEN LET q == FirstNotIn(t, Len(word) + 1, ReSpace)
         IN  IF q > Len(word) + 1 THEN q ELSE 0
    ELSE 0

\* re.compile(r"^chapter\s+(\d+|[ivxlc]+)", re.IGNORECASE).match(text)
MatchChapter(t) ==
    LET q == WordThenSpace(t, <<"c","h","a","p","t","e","r">>)
    IN  q > 0 /\ LowerChar(CharAt(t, q)) \in ReDigit \cup Roman

\* re.compile(r"^part\s+(\d+|[ivxlc]+)", re.IGNORECASE).match(text)
MatchPart(t) ==
    LET q == WordThenSpace(t, <<"p","a","r","t">>)
    IN  q > 0 /\ LowerChar(CharAt(t, q)) \in ReDigit \cup Roman

\* re.compile(r"^(\d+)\.\s+\w+").match(text)
MatchNumbered(t) ==
    LET d == FirstNotIn(t, 1, ReDigit)
    IN  /\ d > 1
        /\ CharAt(t, d) = "."
        /\ LET q == FirstNotIn(t, d + 1, ReSpace)
           IN  q > d + 1 /\ CharAt(t, q) \in ReWord

\* re.compile(r"^section\s+\d+", re.IGNORECASE).match(text)
MatchSection(t) ==
    LET q == WordThenSpace(t, <<"s","e","c","t","i","o","n">>)
    IN  q > 0 /\ CharAt(t, q) \in ReDigit

\* pdf.py line 35: the longest heading accepted
MAX_HEADING_LEN == 100

\* pdf.py: _is_chapter_heading
_is_chapter_heading(text) ==
    LET t == strip(text)
    IN  IF t = <<>> \/ StrLen(t) > MAX_HEADING_LEN THEN FALSE
        ELSE MatchChapter(t) \/ MatchPart(t) \/ MatchNumbered(t) \/ MatchSection(t)

\* d.get(key, ""): the value, or "".
MetaGet(d, key) == IF key \in DOMAIN d THEN d[key] ELSE <<>>

\* a or b or ... or "": the first truthy value
FirstTruthy(vals) ==
    IF \E k \in 1..Len(vals) : Truthy(vals[k])
    THEN vals[Min({k \in 1..Len(vals) : Truthy(vals[k])})]
    ELSE <<>>

\* pdf.py: _extract_metadata; pdf.metadata is a dict, empty when absent.
_extract_metadata(pdf) ==
    IF DOMAIN pdf.metadata # {}
    THEN [title |-> FirstTruthy(<<MetaGet(pdf.metadata, "Title"),
                                 MetaGet(pdf.metadata, "title")>>),
          author |-> FirstTruthy(<<MetaGet(pdf.metadata, "Author"),
                                  MetaGet(pdf.metadata, "author"),
                                  MetaGet(pdf.metadata, "Creator")>>)]
    ELSE [title |-> <<>>, author |-> <<>>]

\* sum of size * count over glyph lines, and the glyph count
RECURSIVE SizeSum(_)
SizeSum(lines) ==
    IF lines = <<>> THEN 0
    ELSE IF Len(lines) = 1 THEN lines[1].size * StrLen(lines[1].text)
    ELSE SizeSum(Left(lines)) + SizeSum(Right(lines))

RECURSIVE GlyphCount(_)
GlyphCount(lines) ==
    IF lines = <<>> THEN 0
    ELSE IF Len(lines) = 1 THEN StrLen(lines[1].text)
    ELSE GlyphCount(Left(lines)) + GlyphCount(Right(lines))

\* pdf.py: _find_large_text_on_page.  page.glyphs holds the page's glyph
\* lines by increasing top, each with the size of its glyphs and its text
\* by increasing x0; line_avg_size > avg_size * 1.2 is compared in tenths.
_find_large_text_on_page(page) ==
    LET lines == page.glyphs
        large == {k \in 1..Len(lines) :
                    /\ 10 * lines[k].size * GlyphCount(lines) > 12 * SizeSum(lines)
                    /\ strip(lines[k].text) # <<>>}
    IN  IF GlyphCount(lines) = 0 THEN <<>>
        ELSE [j \in 1..Cardinality(large) |-> strip(lines[Nth(large, j)].text)]

\* text.split("\n"): a run of c newlines ends the line before it and
\* leaves c - 1 empty lines; the last line of the left half continues in
\* the first line of the right half.
RECURSIVE SplitLines(_)
SplitLines(t) ==
    IF t = <<>> THEN << <<>> >>
    ELSE IF Len(t) = 1
         THEN (IF t[1][1] = "\n" THEN [j \in 1..(t[1][2] + 1) |-> <<>>] ELSE <<t>>)
    ELSE LET l == SplitLines(Left(t))
             r == SplitLines(Right(t))
         IN  SubSeq(l, 1, Len(l) - 1) \o << l[Len(l)] \o r[1] >> \o Tail(r)

\* page.extract_text() or ""
PageText(page) == IF Truthy(page.text) THEN page.text ELSE <<>>

\* pdf.py line 122: the first lines the pattern check reads
FIRST_LINES == 5

\* A slip: the last matching candidate is taken instead of the first.
FirstHeading_last(candidates) ==
    LET hits == {k \in 1..Len(candidates) : _is_chapter_heading(candidates[k])}
    IN  IF hits = {} THEN <<>> ELSE <<strip(candidates[Max(hits)])>>

\* The first of the candidates that is a heading, as a list of 0 or 1 texts.
FirstHeading(candidates) ==
    LET hits == {k \in 1..Len(candidates) : _is_chapter_heading(candidates[k])}
    IN  IF hits = {} THEN <<>> ELSE <<strip(candidates[Min(hits)])>>

\* A slip: the pattern check runs although the font-size test accepted a
\* heading on the page.
PageHeadings_both(page) ==
    LET lines == SplitLines(IF Truthy(page.text) THEN page.text ELSE <<>>)
        first == SubSeq(lines, 1, IF Len(lines) < 5 THEN Len(lines) ELSE 5)
    IN  FirstHeading(_find_large_text_on_page(page)) \o FirstHeading(first)

\* pdf.py lines 110-127: the headings accepted on one page
PageHeadings(page) ==
    LET by_font == FirstHeading(_find_large_text_on_page(page))
        lines == SplitLines(PageText(page))
        first == SubSeq(lines, 1, IF Len(lines) < FIRST_LINES THEN Len(lines)
                                  ELSE FIRST_LINES)
    IN  IF by_font # <<>> THEN by_font ELSE FirstHeading(first)

\* The loop of _detect_chapters_by_headings over the page indices lo .. hi - 1
\* (pages[k + 1] is page index k), computed by halves.
RECURSIVE DetectPages(_, _, _)
DetectPages(pages, lo, hi) ==
    IF hi <= lo THEN <<>>
    ELSE IF hi = lo + 1
         THEN LET found == PageHeadings(pages[lo + 1])
              IN  [j \in 1..Len(found) |-> <<lo, found[j]>>]
         ELSE LET mid == (lo + hi) \div 2
              IN  DetectPages(pages, lo, mid) \o DetectPages(pages, mid, hi)

\* pdf.py: _detect_chapters_by_headings
_detect_chapters_by_headings(pdf) == DetectPages(pdf.pages, 0, Len(pdf.pages))

\* "\n".join of the texts of pages start .. end - 1
PagesText(pdf, start, end) ==
    join(Rep("\n", 1), [k \in 1..(end - start) |-> PageText(pdf.pages[start + k])])


\* ------------------------------------------------------------------ state
VARIABLES
    op,        \* the operation under way
    input,     \* its argument (for a load: the parameters of the document)
    pc,        \* the position in the operation
    handle,    \* the container handle: "none", "open" or "closed"
    opens,     \* how often the container was opened
    locals,    \* the local variables of the load
    i,         \* the loop index of the load
    chapters,  \* the list of chapters built so far
    cands,     \* the candidates examined so far: spine indices (archive),
               \* page ranges <<first, end>> (flat file)
    origin,    \* for each chapter, the position in cands of its candidate
    outcome,   \* "none", "ok" (returned) or "error" (raised)
    result,    \* what the caller received
    parser,    \* the _TextExtractor of an extraction
    pos,       \* the number of parser events already dispatched
    outs,      \* the values returned so far by the text operations, the
               \* detector and query
    cache,     \* the LLM cache: the stored bytes by key
    api_calls, \* the requests made of the remote API so far
    chapter_ages, \* the list analyze_book builds
    responses  \* the responses the UI handler has sent

vars == <<op, input, pc, handle, opens, locals, i, chapters, cands, origin,
          outcome, result, parser, pos, outs, cache, api_calls, chapter_ages,
          responses>>

\* ----------------------------------------------------------------- inputs
\* Markup of a content entry: the parser events of its text and what
\* ElementTree finds in it; its extracted text has n characters.
Html(title, h1, n) ==
    [bytes_ok |-> TRUE,
     events |->
        (IF title # None
         THEN << <<"start", "head">>, <<"start", "title">>, <<"data", title>>,
                 <<"end", "title">>, <<"end", "head">> >>
         ELSE <<>>)
        \o (IF h1 # None
            THEN << <<"start", "h1">>, <<"data", h1>>, <<"end", "h1">> >>
            ELSE <<>>)
        \o << <<"start", "p">>,
              <<"data", Rep("x", IF h1 # None THEN n - StrLen(h1) - 1 ELSE n)>>,
              <<"end", "p">> >>,
     xml |-> [wellformed |-> TRUE,
              tops |-> << El(Tag("", "html"), None,
                  (IF title # None
                   THEN << El(Tag("", "head"), None,
                              << El(Tag("", "title"), title, <<>>) >>) >>
                   ELSE <<>>)
                  \o << El(Tag("", "body"), None,
                       (IF h1 # None THEN << El(Tag("", "h1"), h1, <<>>) >> ELSE <<>>)
                       \o << El(Tag("", "p"),
                                Rep("x", IF h1 # None THEN n - StrLen(h1) - 1 ELSE n),
                                <<>>) >>) >>) >>]]

\* Markup saved with CRLF line ends: two paragraphs of n characters each on
\* lines of their own, no title or heading.
HtmlCrlf(n) ==
    [bytes_ok |-> TRUE,
     events |->
        << <<"start", "p">>, <<"data", Rep("x", n)>>, <<"end", "p">>,
           <<"data", Str(<<"\r", "\n">>)>>,
           <<"start", "p">>, <<"data", Rep("y", n)>>, <<"end", "p">> >>,
     xml |-> [wellformed |-> TRUE,
              tops |-> << El(Tag("", "p"), Rep("x", n), <<>>),
                          El(Tag("", "p"), Rep("y", n), <<>>) >>]]

TheBeginning == Str(<<"T","h","e"," ","B","e","g","i","n","n","i","n","g">>)
Prologue == Str(<<"P","r","o","l","o","g","u","e">>)
CoverTitle == Str(<<"C","o","v","e","r">>)
IndexTitle == Str(<<"I","n","d","e","x">>)
Three == Str(<<"T","h","r","e","e">>)
Old == Str(<<"O","l","d">>)
BookStem == Str(<<"b","o","o","k">>)

\* A navPoint: its navLabel text (None when absent), whether it has a
\* content element, whether that has a src attribute, and the src ("" when
\* absent, as content.get("src", "") gives).
NavPoint(label, name, frag) ==
    [label |-> label, has_content |-> name # "", has_src |-> name # "",
     src |-> PathOf("", name, frag)]

\* A navPoint whose content element has no src attribute.
NavPointNoSrc(label) ==
    [label |-> label, has_content |-> TRUE, has_src |-> FALSE,
     src |-> PathOf("", "", "")]

NavPoints(nav) ==
    CASE nav = "c4" -> << NavPoint(TheBeginning, "ch1.xhtml", "") >>
      [] nav = "full" ->
            << NavPoint(Prologue, "cover.xhtml", ""),
               NavPoint(Old, "ch1.xhtml", "a"),
               NavPoint(TheBeginning, "ch1.xhtml", "b"),
               NavPoint(Rep(" ", 2), "ch2.xhtml", ""),
               NavPoint(IndexTitle, "ch3.xhtml", ""),
               NavPoint(None, "ch3.xhtml", ""),
               NavPoint(Old, "", ""),
               NavPointNoSrc(Three) >>
      [] OTHER -> <<>>

Item(id, name, frag, media_type) ==
    [id |-> id, href |-> PathOf("", name, frag), media_type |-> media_type]

Manifest(p) ==
    << Item("cover", "cover.xhtml", "", "application/xhtml+xml"),
       Item("ch1", "ch1.xhtml", IF p.frag THEN "top" ELSE "", "application/xhtml+xml"),
       Item("ch2", "ch2.xhtml", "", "application/xhtml+xml"),
       Item("ch3", "ch3.xhtml", "", "text/html"),
       Item("gone", "gone.xhtml", "", "application/xhtml+xml"),
       Item("bad", "bad.xhtml", "", "application/xhtml+xml"),
       Item("css", "style.css", "", "text/css") >>
    \o (IF p.nav = "none" THEN <<>>
        ELSE << Item("ncx", "toc.ncx", "", "application/x-dtbncx+xml") >>)

OpfPath(p) == PathOf(p.dir, "content.opf", "")

\* The zip archive the parameters p describe.
Archive(p) ==
    LET names == {"cover.xhtml", "ch1.xhtml", "ch2.xhtml", "ch3.xhtml", "bad.xhtml"}
                 \cup (IF p.fault = "noopf" THEN {} ELSE {"content.opf"})
                 \cup (IF p.nav \in {"none", "missing"} THEN {} ELSE {"toc.ncx"})
        paths == {PathOf(p.dir, n, "") : n \in names}
                 \cup (IF p.fault = "nocontainer" THEN {} ELSE {CONTAINER_XML})
    IN  [zip_ok |-> p.fault # "notzip",
         entries |-> [f \in paths |->
            CASE f = CONTAINER_XML ->
                    [bytes_ok |-> p.fault # "undecodablecontainer",
                     xml_ok |-> p.fault # "badcontainer",
                     has_rootfile |-> p.fault # "norootfile",
                     full_path |-> OpfPath(p)]
              [] f.name = "content.opf" ->
                    [bytes_ok |-> TRUE,
                     xml_ok |-> p.fault # "badopf",
                     title |-> IF p.cover = "short" THEN None ELSE Prologue,
                     creator |-> IF p.nav = "full" THEN Old ELSE None,
                     manifest |-> Manifest(p),
                     spine |-> p.spine]
              [] f.name = "toc.ncx" ->
                    [bytes_ok |-> p.nav # "undecodable",
                     xml_ok |-> p.nav # "malformed",
                     navpoints |-> NavPoints(p.nav)]
              [] f.name = "cover.xhtml" ->
                    CASE p.cover = "short" -> Html(None, None, 100)
                      [] p.cover = "long_titled" -> Html(None, CoverTitle, 600)
                      [] p.cover = "long_head_titled" -> Html(CoverTitle, None, 600)
                      [] p.cover = "crlf" -> HtmlCrlf(300)
                      [] OTHER -> Html(None, None, 600)
              [] f.name = "ch1.xhtml" -> Html(None, None, 1200)
              [] f.name = "ch2.xhtml" -> Html(None, Old, 300)
              [] f.name = "ch3.xhtml" -> Html(None, Three, MIN_CHAPTER_LEN)
              [] OTHER -> [bytes_ok |-> FALSE]]]

AllIds == {"cover", "ch1", "ch2", "ch3", "gone", "bad", "css", "nope"}
CoreIds == {"cover", "ch1", "ch2", "ch3"}

SeqsUpTo(S, n) == UNION {[1..k -> S] : k \in 0..n}

DefaultEpub ==
    [cover |-> "short", nav |-> "c4", frag |-> FALSE, dir |-> "OEBPS", fault |-> "none"]

EpubVariants ==
    {[DefaultEpub EXCEPT !.cover = c] :
        c \in {"long_titled", "long_head_titled", "long_untitled", "crlf"}}
    \cup {[DefaultEpub EXCEPT !.nav = n] :
            n \in {"none", "missing", "undecodable", "malformed", "full"}}
    \cup {[DefaultEpub EXCEPT !.frag = TRUE], [DefaultEpub EXCEPT !.dir = ""],
          [DefaultEpub EXCEPT !.nav = "full", !.cover = "long_titled"]}

EpubFaults ==
    {"notzip", "nocontainer", "undecodablecontainer", "badcontainer",
     "norootfile", "noopf", "badopf"}

WithSpine(v, sp) ==
    [cover |-> v.cover, nav |-> v.nav, frag |-> v.frag, dir |-> v.dir,
     fault |-> v.fault, spine |-> sp]

EpubInputs ==
    {WithSpine(DefaultEpub, sp) : sp \in SeqsUpTo(AllIds, MaxSpine)}
    \cup {WithSpine(v, sp) : v \in EpubVariants, sp \in SeqsUpTo(CoreIds, MaxSpine)}
    \cup {WithSpine([DefaultEpub EXCEPT !.fault = f], <<"ch1">>) : f \in EpubFaults}

NoLocals ==
    [opf_path |-> PathOf("", "", ""), opf_dir |-> "", title |-> <<>>,
     author |-> <<>>, spine_items |-> <<>>, ncx_href |-> Err("None"),
     ncx_titles |-> << >>, boundaries |-> <<>>]

NoBook == Book(None, None, <<>>)

Start(o, arg) ==
    /\ op = o /\ input = arg /\ pc = "call"
    /\ handle = "none" /\ opens = 0 /\ locals = NoLocals /\ i = 0
    /\ chapters = <<>> /\ cands = <<>> /\ origin = <<>> /\ outcome = "none" /\ result = NoBook
    /\ parser = TextExtractor /\ pos = 0 /\ outs = <<>>
    /\ cache = << >> /\ api_calls = <<>> /\ chapter_ages = <<>> /\ responses = <<>>

\* ------------------------------------------------------------- load_epub
\* The with statement's exit: the handle is closed however the block ends.
zf_exit_leaky(how) == IF how = "raise" THEN "open" ELSE "closed"

zf_exit(how) == "closed"

\* A slip: an exception in the block hands back what was built so far.
Raised_partial(built) == [outcome |-> "error", result |-> built]

\* An exception reaching the caller: no Book is returned.
Raised(built) == [outcome |-> "error", result |-> NoBook]

\* The statements that leave the operation unchanged in every load step.
LoadFrame ==
    UNCHANGED <<op, input, parser, pos, outs, cache, api_calls, chapter_ages, responses>>

\* An exception inside the with block: the block is left, the handle closed.
Raise ==
    /\ pc' = "done"
    /\ handle' = zf_exit("raise")
    /\ outcome' = Raised(Book(locals.title, locals.author, chapters)).outcome
    /\ result' = Raised(Book(locals.title, locals.author, chapters)).result
    /\ UNCHANGED <<opens, locals, i, chapters, cands, origin>>

\* epub.py line 177: zipfile.ZipFile(path, "r")
EpubOpen ==
    /\ op = "load_epub" /\ pc = "call"
    /\ IF Archive(input).zip_ok
       THEN /\ handle' = "open" /\ opens' = opens + 1 /\ pc' = "rootfile"
            /\ UNCHANGED <<outcome, result>>
       ELSE /\ pc' = "done"
            /\ outcome' = Raised(NoBook).outcome /\ result' = Raised(NoBook).result
            /\ UNCHANGED <<handle, opens>>
    /\ UNCHANGED <<locals, i, chapters, cands, origin>>
    /\ LoadFrame

\* epub.py lines 178-179
EpubRootfile ==
    /\ op = "load_epub" /\ pc = "rootfile"
    /\ LET r == _get_container_rootfile(Archive(input))
       IN  IF r.err # "" THEN Raise
           ELSE /\ locals' = [locals EXCEPT !.opf_path = r.val,
                                            !.opf_dir = Parent(r.val)]
                /\ pc' = "opf"
                /\ UNCHANGED <<handle, opens, i, chapters, cands, origin, outcome, result>>
    /\ LoadFrame

\* epub.py line 181
EpubParseOpf ==
    /\ op = "load_epub" /\ pc = "opf"
    /\ LET r == _parse_opf(Archive(input), locals.opf_path)
       IN  IF r.err # "" THEN Raise
           ELSE /\ locals' = [locals EXCEPT !.title = r.val.title,
                                            !.author = r.val.author,
                                            !.spine_items = r.val.spine_items,
                                            !.ncx_href = r.val.ncx_href]
                /\ pc' = "ncx"
                /\ UNCHANGED <<handle, opens, i, chapters, cands, origin, outcome, result>>
    /\ LoadFrame

\* epub.py lines 184-190
EpubParseNcx ==
    /\ op = "load_epub" /\ pc = "ncx"
    /\ LET r == IF locals.ncx_href.err = ""
                THEN _parse_ncx(Archive(input),
                                Resolve(locals.opf_dir, locals.ncx_href.val))
                ELSE Ok(<< >>)
       IN  IF r.err # "" THEN Raise
           ELSE /\ locals' = [locals EXCEPT !.ncx_titles = r.val]
                /\ pc' = "spine" /\ i' = 0
                /\ UNCHANGED <<handle, opens, chapters, cands, origin, outcome, result>>
    /\ LoadFrame


\* A slip: the floor test is dropped.
TooShort_never(text) == FALSE

\* epub.py line 209: not text or len(text) < 500
TooShort(text) == text = <<>> \/ StrLen(text) < MIN_CHAPTER_LEN

\* epub.py line 213:
\* ncx_titles.get(href) or _extract_chapter_title(content, f"Chapter {i + 1}")
ResolveTitle(ncx_titles, href, content, n) ==
    IF Truthy(DictGet(ncx_titles, href)) THEN DictGet(ncx_titles, href)
    ELSE _extract_chapter_title(content, ChapterN(n))

\* A slip: a new chapter is put in front of the list.
Collect_front(list, chapter) == <<chapter>> \o list

\* chapters.append(chapter)
Collect(list, chapter) == Append(list, chapter)

\* The next spine entry is passed over: continue.
EpubSkip ==
    /\ i' = i + 1
    /\ cands' = Append(cands, i)
    /\ UNCHANGED <<pc, handle, opens, locals, chapters, origin, outcome, result>>

\* A slip: the KeyError of a missing entry is not caught.
OnKeyError_raise == Raise

\* epub.py lines 203-206: except KeyError: continue
OnKeyError == EpubSkip

\* epub.py lines 193-219: one iteration of the spine loop
EpubSpineEntry ==
    /\ op = "load_epub" /\ pc = "spine" /\ i < Len(locals.spine_items)
    /\ LET href == locals.spine_items[i + 1][2]
           full_href == StripFragment(Resolve(locals.opf_dir, href))
           content == ReadDecode(Archive(input), full_href)
       IN  IF content.err = "KeyError" THEN OnKeyError
           ELSE IF content.err # "" THEN Raise
           ELSE LET text == _extract_text_from_html(content.val.events)
                    chapter_title ==
                        ResolveTitle(locals.ncx_titles, href, content.val, i + 1)
                IN  IF TooShort(text) THEN EpubSkip
                    ELSE IF ~is_content_chapter(chapter_title) THEN EpubSkip
                    ELSE /\ chapters' = Collect(chapters, Chapter(chapter_title, text))
                         /\ cands' = Append(cands, i)
                         /\ origin' = Collect(origin, Len(cands) + 1)
                         /\ i' = i + 1
                         /\ UNCHANGED <<pc, handle, opens, locals, outcome, result>>
    /\ LoadFrame

\* title or path.stem
TitleOrStem(title) == IF Truthy(title) THEN title ELSE BookStem

\* epub.py line 221, and the end of the with block
EpubReturn ==
    /\ op = "load_epub" /\ pc = "spine" /\ i = Len(locals.spine_items)
    /\ result' = Book(TitleOrStem(locals.title), locals.author, chapters)
    /\ outcome' = "ok"
    /\ handle' = zf_exit("return")
    /\ pc' = "done"
    /\ UNCHANGED <<opens, locals, i, chapters, cands, origin>>
    /\ LoadFrame

NextEpub ==
    \/ EpubOpen
    \/ EpubRootfile
    \/ EpubParseOpf
    \/ EpubParseNcx
    \/ EpubSpineEntry
    \/ EpubReturn

\* --------------------------------------------------------------- load_pdf
\* The heading printed on heading page k of document d: "Chapter r".
HeadingLine(d, k) == ChapterN(Cardinality({h \in d.heads : h <= k}))

\* The body text of page k of document d.
BodyText(d, k) ==
    CASE d.body = "tiny" -> Rep("x", 10)
      [] d.body = "mid" -> Rep("x", 60)
      [] d.body = "late" -> IF k < 10 THEN Rep("x", 10) ELSE Rep("x", 60)
      [] d.body = "ragged" -> Rep(" ", 2) \o Rep("x", 60) \o Rep("\n", 4)
      [] d.body = "spaced" ->
            Rep("x", 300)
            \o << <<"\n", 1>>, <<" ", 1>>, <<"\n", 1>>, <<" ", 1>>,
                  <<"\n", 1>>, <<" ", 1>>, <<"\n", 1>> >>
            \o Rep("y", 300)
      [] d.body = "exact" ->
            IF k \in d.heads
            THEN Rep("x", MIN_CHAPTER_LEN - StrLen(HeadingLine(d, k)) - 1)
            ELSE Rep("x", MIN_CHAPTER_LEN)
      [] OTHER -> <<>>

\* Page k of document d: its linear text and its glyph lines.
PageOf(d, k) ==
    IF d.body = "none" THEN [text |-> None, glyphs |-> <<>>]
    ELSE IF k \in d.heads
    THEN [text |-> Cat(Cat(HeadingLine(d, k), Rep("\n", 1)), BodyText(d, k)),
          glyphs |-> << [size |-> IF d.style = "font" THEN 20 ELSE 10,
                         text |-> HeadingLine(d, k)],
                        [size |-> 10, text |-> Rep("x", 60)] >>]
    ELSE [text |-> BodyText(d, k),
          glyphs |-> << [size |-> 10, text |-> Rep("x", 60)] >>]

\* The metadata dict of document d.
Metadata(d) ==
    CASE d.body = "mid" /\ d.style = "font" ->
            [k \in {"Title", "Author"} |-> IF k = "Title" THEN Prologue ELSE Old]
      [] d.body = "mid" /\ d.style = "pattern" ->
            [k \in {"title", "Author", "Creator"} |->
                CASE k = "title" -> Three [] k = "Author" -> <<>> [] OTHER -> Old]
      [] d.body = "exact" -> [k \in {"Title"} |-> Prologue]
      [] OTHER -> << >>

\* The document the parameters d describe.
Pdf(d) ==
    [valid |-> d.valid,
     metadata |-> Metadata(d),
     pages |-> [k \in 1..d.n |-> PageOf(d, k - 1)]]

PageCounts == {1, 2, 20, 21, 25, 30, MaxPages}

HeadSets(n) ==
    {H \in {{}, {0}, {0, 10}, {3}, {1, 2}, {5, 10, 15}, {0, n - 1}} :
        \A h \in H : h < n}

PdfInputs ==
    UNION {{[n |-> n, body |-> b, heads |-> H, style |-> st, valid |-> TRUE] :
              b \in {"tiny", "mid", "ragged", "exact"},
              H \in HeadSets(n), st \in {"font", "pattern"}} : n \in PageCounts}
    \cup {[n |-> n, body |-> "spaced", heads |-> H, style |-> "font", valid |-> TRUE] :
            n \in {1, 2}, H \in {{}, {0}}}
    \cup {[n |-> n, body |-> "late", heads |-> {}, style |-> "pattern", valid |-> TRUE] :
            n \in PageCounts}
    \cup {[n |-> n, body |-> "none", heads |-> {}, style |-> "pattern",
           valid |-> v] : n \in PageCounts, v \in BOOLEAN}

\* pdf.py line 143: pdfplumber.open(path)
PdfOpen ==
    /\ op = "load_pdf" /\ pc = "call"
    /\ IF Pdf(input).valid
       THEN /\ handle' = "open" /\ opens' = opens + 1 /\ pc' = "detect"
            /\ UNCHANGED <<outcome, result>>
       ELSE /\ pc' = "done"
            /\ outcome' = Raised(NoBook).outcome /\ result' = Raised(NoBook).result
            /\ UNCHANGED <<handle, opens>>
    /\ UNCHANGED <<locals, i, chapters, cands, origin>>
    /\ LoadFrame

\* pdf.py lines 144-151
PdfDetect ==
    /\ op = "load_pdf" /\ pc = "detect"
    /\ LET m == _extract_metadata(Pdf(input))
           b == _detect_chapters_by_headings(Pdf(input))
       IN  /\ locals' = [locals EXCEPT !.title = m.title, !.author = m.author,
                                       !.boundaries = b]
           /\ pc' = IF b # <<>> THEN "chapters" ELSE "fallback"
    /\ i' = 0
    /\ UNCHANGED <<handle, opens, chapters, cands, origin, outcome, result>>
    /\ LoadFrame

\* A slip: every chapter runs to the end of the document.
EndPage_last(boundaries, k, n) == n

\* pdf.py lines 155-158: the end page of the chapter at index k
EndPage(boundaries, k, n) ==
    IF k + 1 < Len(boundaries) THEN boundaries[k + 2][1] ELSE n

\* pdf.py lines 153-174: one iteration of the loop over the boundaries
PdfChapter ==
    /\ op = "load_pdf" /\ pc = "chapters" /\ i < Len(locals.boundaries)
    /\ LET start_page == locals.boundaries[i + 1][1]
           chapter_title == locals.boundaries[i + 1][2]
           end_page == EndPage(locals.boundaries, i, Len(Pdf(input).pages))
           chapter_text == _normalize_text(PagesText(Pdf(input), start_page, end_page))
       IN  /\ cands' = Append(cands, <<start_page, end_page>>)
           /\ IF StrLen(chapter_text) < MIN_CHAPTER_LEN
                 \/ ~is_content_chapter(chapter_title)
              THEN UNCHANGED <<chapters, origin>>
              ELSE /\ chapters' = Collect(chapters, Chapter(chapter_title, chapter_text))
                   /\ origin' = Collect(origin, Len(cands) + 1)
    /\ i' = i + 1
    /\ UNCHANGED <<pc, handle, opens, locals, outcome, result>>
    /\ LoadFrame

\* pdf.py line 186: the page count above which the document is cut in chunks
CHUNK_THRESHOLD == 20
\* pdf.py line 187: chunk_size
CHUNK_SIZE == 10

\* A slip: a chunk is numbered by its place among the chapters kept.
SectionN_kept(n) ==
    Cat(Str(<<"S","e","c","t","i","o","n"," ">>), IntStr(Len(chapters) + 1))

\* f"Section {n}"
SectionN(n) == Cat(Str(<<"S","e","c","t","i","o","n"," ">>), IntStr(n))

ContentTitle == Str(<<"C","o","n","t","e","n","t">>)

\* pdf.py lines 177-186 and 199-201: no heading was found
PdfFallback ==
    /\ op = "load_pdf" /\ pc = "fallback"
    /\ LET n == Len(Pdf(input).pages)
           full_text == _normalize_text(PagesText(Pdf(input), 0, n))
       IN  IF StrLen(full_text) > MIN_CHAPTER_LEN
           THEN IF n > CHUNK_THRESHOLD
                THEN /\ pc' = "chunks"
                     /\ UNCHANGED <<chapters, cands, origin>>
                ELSE /\ pc' = "return"
                     /\ chapters' = Collect(chapters, Chapter(ContentTitle, full_text))
                     /\ cands' = Append(cands, <<0, n>>)
                     /\ origin' = Collect(origin, Len(cands) + 1)
           ELSE /\ pc' = "return"
                /\ UNCHANGED <<chapters, cands, origin>>
    /\ i' = 0
    /\ UNCHANGED <<handle, opens, locals, outcome, result>>
    /\ LoadFrame

\* pdf.py lines 188-198: one iteration of the chunk loop, i being the first page
PdfChunk ==
    /\ op = "load_pdf" /\ pc = "chunks" /\ i < Len(Pdf(input).pages)
    /\ LET n == Len(Pdf(input).pages)
           end == IF i + CHUNK_SIZE < n THEN i + CHUNK_SIZE ELSE n
           chunk_text == _normalize_text(PagesText(Pdf(input), i, end))
       IN  /\ cands' = Append(cands, <<i, end>>)
           /\ IF StrLen(chunk_text) > MIN_CHAPTER_LEN
              THEN /\ chapters' = Collect(chapters,
                                     Chapter(SectionN((i \div CHUNK_SIZE) + 1), chunk_text))
                   /\ origin' = Collect(origin, Len(cands) + 1)
              ELSE UNCHANGED <<chapters, origin>>
    /\ i' = i + CHUNK_SIZE
    /\ UNCHANGED <<pc, handle, opens, locals, outcome, result>>
    /\ LoadFrame

\* A slip: a document whose ranges were all dropped gets the single chapter
\* of the zero-heading fallback.
PdfReturn_fallback ==
    /\ op = "load_pdf"
    /\ \/ pc = "chapters" /\ i = Len(locals.boundaries)
       \/ pc = "chunks" /\ i >= Len(Pdf(input).pages)
       \/ pc = "return"
    /\ result' = Book(TitleOrStem(locals.title), locals.author,
                      IF chapters # <<>> THEN chapters
                      ELSE << Chapter(ContentTitle,
                                      _normalize_text(PagesText(Pdf(input), 0,
                                                                Len(Pdf(input).pages)))) >>)
    /\ outcome' = "ok"
    /\ handle' = zf_exit("return")
    /\ pc' = "done"
    /\ UNCHANGED <<opens, locals, i, chapters, cands, origin>>
    /\ LoadFrame

\* pdf.py line 203, and the end of the with block
PdfReturn ==
    /\ op = "load_pdf"
    /\ \/ pc = "chapters" /\ i = Len(locals.boundaries)
       \/ pc = "chunks" /\ i >= Len(Pdf(input).pages)
       \/ pc = "return"
    /\ result' = Book(TitleOrStem(locals.title), locals.author, chapters)
    /\ outcome' = "ok"
    /\ handle' = zf_exit("return")
    /\ pc' = "done"
    /\ UNCHANGED <<opens, locals, i, chapters, cands, origin>>
    /\ LoadFrame

NextPdf == PdfOpen \/ PdfDetect \/ PdfChapter \/ PdfFallback \/ PdfChunk \/ PdfReturn


\* ------------------------------------- _detect_chapters_by_headings, run
\* on its own over documents of one or two pages
PartI == Str(<<"P","a","r","t"," ","I">>)
NumberedOld == Cat(Str(<<"1","."," ">>), Old)

\* A glyph line of 20pt and of 10pt glyphs, and a body line.
Big(text) == [size |-> 20, text |-> text]
Small(text) == [size |-> 10, text |-> text]
BodyLine == Small(Rep("x", 60))

\* The glyph lines of a page of each kind, by increasing top.
PageLines(kind) ==
    CASE kind = "font_first" -> << Big(ChapterN(1)), BodyLine >>
      [] kind = "font_second" ->
            << Big(Prologue), Big(ChapterN(2)), Big(SectionN(3)), BodyLine >>
      [] kind = "pattern_only" -> << Small(PartI), BodyLine >>
      [] kind = "numbered" -> << BodyLine, Small(NumberedOld), Small(ChapterN(2)) >>
      [] kind = "indented" -> << Small(Cat(Rep(" ", 2), ChapterN(1))), BodyLine >>
      [] kind = "both_differ" ->
            << Small(SectionN(1)), BodyLine, Big(ChapterN(3)), BodyLine >>
      [] kind = "large_other" -> << Big(Prologue), Small(ChapterN(4)), BodyLine >>
      [] kind = "fifth" ->
            << BodyLine, BodyLine, BodyLine, BodyLine, Small(ChapterN(5)) >>
      [] kind = "late" ->
            << BodyLine, BodyLine, BodyLine, BodyLine, BodyLine, Small(ChapterN(6)) >>
      [] kind = "late_font" ->
            << BodyLine, BodyLine, BodyLine, BodyLine, BodyLine, Big(ChapterN(7)) >>
      [] kind = "long" ->
            << Big(Cat(ChapterN(1), Rep("x", MAX_HEADING_LEN - 8))), BodyLine >>
      [] kind = "hundred" ->
            << Big(Cat(ChapterN(1), Rep("x", MAX_HEADING_LEN - 9))), BodyLine >>
      [] OTHER -> << BodyLine, BodyLine >>

PageKinds ==
    {"plain", "font_first", "font_second", "pattern_only", "numbered", "indented",
     "both_differ", "large_other", "fifth", "late", "late_font", "long", "hundred"}

\* A page of a kind: extract_text gives its glyph lines from top to bottom.
PageOfKind(kind) ==
    [text |-> join(Rep("\n", 1), [k \in 1..Len(PageLines(kind)) |-> PageLines(kind)[k].text]),
     glyphs |-> PageLines(kind)]

MaxDetectPages == 2

DetectInputs == UNION {[1..n -> PageKinds] : n \in 1..MaxDetectPages}

\* The document whose pages have the kinds d.
DetectDoc(d) == [pages |-> [k \in 1..Len(d) |-> PageOfKind(d[k])]]

\* _detect_chapters_by_headings(pdf), called and returned
DetectHeadings ==
    /\ op = "_detect_chapters_by_headings" /\ pc = "call"
    /\ outs' = Append(outs, _detect_chapters_by_headings(DetectDoc(input)))
    /\ pc' = "done"
    /\ UNCHANGED <<op, input, handle, opens, locals, i, chapters, cands, origin,
                    outcome, result, parser, pos, cache, api_calls, chapter_ages,
                    responses>>

NextDetect == DetectHeadings

\* ------------------------------------------------ the text operations, run
TextChars == {" ", "\t", "\n", "a"}

\* The strs of at most MaxRuns runs of at most MaxCount characters each.
TextInputs ==
    {t \in SeqsUpTo(TextChars \X (1..MaxCount), MaxRuns) :
        \A k \in 1..(Len(t) - 1) : t[k][1] # t[k + 1][1]}

NormalizeFns == {"get_text", "_normalize_text"}

ApplyFn(fn, text) ==
    IF fn = "get_text" THEN get_text(<<text>>) ELSE _normalize_text(text)

TextFrame ==
    UNCHANGED <<op, input, handle, opens, locals, i, chapters, cands, origin,
                outcome, result, cache, api_calls, chapter_ages, responses>>

\* The normalization applied to the input, then to its own output.
Normalize ==
    /\ op \in NormalizeFns /\ pc = "call"
    /\ outs' = <<ApplyFn(op, input)>>
    /\ pc' = "again"
    /\ UNCHANGED <<parser, pos>>
    /\ TextFrame

NormalizeAgain ==
    /\ op \in NormalizeFns /\ pc = "again"
    /\ outs' = Append(outs, ApplyFn(op, outs[1]))
    /\ pc' = "done"
    /\ UNCHANGED <<parser, pos>>
    /\ TextFrame

\* The markup <div>A</div><script>ignored</script><p>B</p> as parser events.
DivScriptP ==
    << <<"start", "div">>, <<"data", Str(<<"A">>)>>, <<"end", "div">>,
       <<"start", "script">>,
       <<"data", Str(<<"i","g","n","o","r","e","d">>)>>,
       <<"end", "script">>,
       <<"start", "p">>, <<"data", Str(<<"B">>)>>, <<"end", "p">> >>

Events ==
    ({"start", "end"} \X {"script", "head", "p", "span"})
    \cup {<<"data", Str(<<"A">>)>>}

\* The markup A<head><p>A</p></head>A as parser events.
HeadBlock ==
    << <<"data", Str(<<"A">>)>>, <<"start", "head">>, <<"start", "p">>,
       <<"data", Str(<<"A">>)>>, <<"end", "p">>, <<"end", "head">>,
       <<"data", Str(<<"A">>)>> >>

ExtractInputs == SeqsUpTo(Events, MaxEvents) \cup {DivScriptP, HeadBlock}

\* _extract_text_from_html, event by event: parser.feed(html)
Feed ==
    /\ op = "_extract_text_from_html" /\ pc = "call" /\ pos < Len(input)
    /\ parser' = Dispatch(parser, input[pos + 1])
    /\ pos' = pos + 1
    /\ UNCHANGED <<pc, outs>>
    /\ TextFrame

\* ... then parser.get_text()
GetText ==
    /\ op = "_extract_text_from_html" /\ pc = "call" /\ pos = Len(input)
    /\ outs' = <<get_text(parser.parts)>>
    /\ pc' = "done"
    /\ UNCHANGED <<parser, pos>>
    /\ TextFrame

\* The text of an element of a title document, by the kind chosen for it.
KindText(kind, word) ==
    CASE kind = "empty" -> None
      [] kind = "blank" -> Rep(" ", 2)
      [] kind = "short" -> Cat(Cat(Rep(" ", 1), word), Rep("\n", 1))
      [] kind = "x99" -> Rep("x", 99)
      [] kind = "x100" -> Rep("x", 100)

\* The element of a title document, if its kind is not "absent".
Maybe(ns, local, kind, word) ==
    IF kind = "absent" THEN <<>>
    ELSE << El(Tag(ns, local), KindText(kind, word), <<>>) >>

\* The markup the parameters d describe: a whole document (html, head with
\* the title, body with the headings) or the same elements side by side.
TitleDoc(d) ==
    LET title == Maybe(d.ns, "title", d.title, Prologue)
        heads == Maybe(d.ns, "h1", d.h1, Old) \o Maybe(d.ns, "h1", d.h1b, Three)
                 \o Maybe(d.ns, "h2", d.h2, TheBeginning)
                 \o Maybe(d.ns, "h3", d.h3, IndexTitle)
    IN  [wellformed |-> d.wellformed,
         tops |-> IF d.shape = "document"
                  THEN << El(Tag(d.ns, "html"), None,
                             << El(Tag(d.ns, "head"), None, title),
                                El(Tag(d.ns, "body"), None, heads) >>) >>
                  ELSE title \o heads]

TitleDocs ==
    {[shape |-> sh, ns |-> ns, wellformed |-> wf,
      title |-> t, h1 |-> a, h1b |-> b, h2 |-> c, h3 |-> e] :
        sh \in {"document", "fragment"}, ns \in {"", "xhtml"}, wf \in BOOLEAN,
        t \in {"absent", "short", "x100"},
        a \in {"absent", "empty", "blank", "short", "x99", "x100"},
        b \in {"absent", "short"},
        c \in {"absent", "blank", "short", "x100"},
        e \in {"absent", "short"}}

\* The fallback handed to _extract_chapter_title.
TitleFallback == ChapterN(7)

\* _extract_chapter_title(html, fallback)
ExtractTitle ==
    /\ op = "_extract_chapter_title" /\ pc = "call"
    /\ outs' = <<_extract_chapter_title([xml |-> TitleDoc(input)], TitleFallback)>>
    /\ pc' = "done"
    /\ UNCHANGED <<parser, pos>>
    /\ TextFrame

NextText == Normalize \/ NormalizeAgain \/ Feed \/ GetText \/ ExtractTitle

\* ------------------------------------------------------------ specification
\* ------------------------------------------------------ dev/utils/llm.py
\* json.dumps of the characters of a str: ", \ and newline are escaped.
RECURSIVE JsonEscape(_)
JsonEscape(t) ==
    IF t = <<>> THEN <<>>
    ELSE IF Len(t) = 1
         THEN CASE t[1][1] = "\"" ->
                      Str([k \in 1..(2 * t[1][2]) |-> IF k % 2 = 1 THEN "\\" ELSE "\""])
                [] t[1][1] = "\n" ->
                      Str([k \in 1..(2 * t[1][2]) |-> IF k % 2 = 1 THEN "\\" ELSE "n"])
                [] t[1][1] = "\\" -> Rep("\\", 2 * t[1][2])
                [] OTHER -> t
    ELSE Cat(JsonEscape(Left(t)), JsonEscape(Right(t)))

\* json.dumps of a str or of None
JsonValue(v) ==
    IF v = None THEN Str(<<"n","u","l","l">>)
    ELSE Cat(Cat(Rep("\"", 1), JsonEscape(v)), Rep("\"", 1))

\* json.dumps({"prompt": prompt, "system_prompt": system_prompt}, sort_keys=True)
json_dumps(prompt, system_prompt) ==
    Cat(Cat(Cat(Cat(Str(<<"{","\"","p","r","o","m","p","t","\"",":"," ">>),
                    JsonValue(prompt)),
                Str(<<","," ","\"","s","y","s","t","e","m","_","p","r","o","m","p","t",
                      "\"",":"," ">>)),
            JsonValue(system_prompt)),
        Rep("}", 1))

\* hashlib.sha256(data.encode()).hexdigest().encode(): the digest stands
\* for the data it was computed from, no two data sharing one.
sha256(data) == <<"sha256", data>>

\* A slip: the key is computed from the prompt alone.
_cache_key_prompt_only(prompt, system_prompt) == sha256(JsonValue(prompt))

\* llm.py: _cache_key
_cache_key(prompt, system_prompt) == sha256(json_dumps(prompt, system_prompt))

\* str.encode() and bytes.decode()
encode(s) == <<"bytes", s>>
decode(b) == b[2]

\* llm.py lines 45-48: the messages of the request
Messages(prompt, system_prompt) ==
    (IF Truthy(system_prompt)
     THEN << [role |-> "system", content |-> system_prompt] >> ELSE <<>>)
    \o << [role |-> "user", content |-> prompt] >>

\* txn.put(key, value)
Put(c, key, value) ==
    [k \in DOMAIN c \cup {key} |-> IF k = key THEN value ELSE c[k]]

\* llm.py: query, on the cache c, the remote API answering api (a reply, or
\* an error raised by the client).  called tells whether the API was invoked.
query(c, prompt, system_prompt, api) ==
    LET key == _cache_key(prompt, system_prompt)
    IN  IF key \in DOMAIN c
        THEN [cache |-> c, called |-> FALSE, err |-> "", val |-> decode(c[key])]
        ELSE IF api.err # ""
        THEN [cache |-> c, called |-> TRUE, err |-> api.err, val |-> <<>>]
        ELSE [cache |-> Put(c, key, encode(api.val)), called |-> TRUE,
              err |-> "", val |-> api.val]

\* Replies of the remote model.
AgeMin == Str(<<"A","G","E","_","M","I","N",":">>)
AgeMax == Str(<<"A","G","E","_","M","A","X",":">>)
Reasoning == Str(<<"R","E","A","S","O","N","I","N","G",":">>)
Line(tag, rest) == Cat(Cat(tag, Rep(" ", 1)), rest)
Lines3(a, b, c) == join(Rep("\n", 1), <<a, b, c>>)

\* "AGE_MIN: 5 / AGE_MAX: 7 / REASONING: Old"
ReplyChild == Lines3(Line(AgeMin, IntStr(5)), Line(AgeMax, IntStr(7)), Line(Reasoning, Old))
\* "AGE_MIN: 30 / AGE_MAX: 31 / REASONING: Three"
ReplyAdult ==
    Lines3(Line(AgeMin, IntStr(30)), Line(AgeMax, IntStr(31)), Line(Reasoning, Three))
\* "AGE_MIN: Old / Three / AGE_MAX:": no number to read
ReplyVague == Lines3(Line(AgeMin, Old), Three, AgeMax)

\* --------------------------------------------------- query, run on its own
MaxCalls == 3

QuotedA == Str(<<"a","\"">>)
Prompts == {Rep("a", 1), QuotedA}
SystemPrompts == {None, <<>>, Rep("a", 1)}
QueryOutcomes == {Ok(ReplyChild), Ok(ReplyAdult), Err("APIError")}

AgeVars == <<chapter_ages, responses>>

\* One call of query(prompt, system_prompt), completed or raised.
QueryCall ==
    /\ op = "query" /\ pc = "call" /\ Len(outs) < MaxCalls
    /\ \E prompt \in Prompts, system_prompt \in SystemPrompts, api \in QueryOutcomes :
          LET q == query(cache, prompt, system_prompt, api)
          IN  /\ cache' = q.cache
              /\ api_calls' =
                    IF q.called
                    THEN Append(api_calls, [messages |-> Messages(prompt, system_prompt),
                                            call |-> Len(outs) + 1])
                    ELSE api_calls
              /\ outs' = Append(outs, [prompt |-> prompt, system_prompt |-> system_prompt,
                                       err |-> q.err, val |-> q.val])
    /\ UNCHANGED <<op, input, pc, handle, opens, locals, i, chapters, cands, origin,
                    outcome, result, parser, pos>>
    /\ UNCHANGED AgeVars

NextQuery == QueryCall

\* ---------------------------------------------------------- book/parse.py
\* text.split("\n\n"): a run of c newlines holds c \div 2 separators, and a
\* newline left over begins the next piece.
RECURSIVE SplitParagraphs(_)
SplitParagraphs(t) ==
    IF t = <<>> THEN << <<>> >>
    ELSE IF Len(t) = 1
         THEN (IF t[1][1] = "\n" /\ t[1][2] >= 2
               THEN [j \in 1..((t[1][2] \div 2) + 1) |->
                        IF j = (t[1][2] \div 2) + 1 THEN Rep("\n", t[1][2] % 2) ELSE <<>>]
               ELSE <<t>>)
    ELSE LET l == SplitParagraphs(Left(t))
             r == SplitParagraphs(Right(t))
         IN  SubSeq(l, 1, Len(l) - 1) \o << Cat(l[Len(l)], r[1]) >> \o Tail(r)

\* parse.py line 30: n, the paragraphs of an excerpt
PARAGRAPHS == 3

\* parse.py: _get_first_paragraphs
_get_first_paragraphs(text) ==
    LET pieces == SplitParagraphs(text)
        keep == {k \in 1..Len(pieces) : strip(pieces[k]) # <<>>}
        n == IF Cardinality(keep) < PARAGRAPHS THEN Cardinality(keep) ELSE PARAGRAPHS
    IN  join(Rep("\n", 2), [j \in 1..n |-> strip(pieces[Nth(keep, j)])])

\* The shortest excerpt analyze_book estimates: book/parse.py line 123 and
\* dev/book/parse.py line 153.
MIN_EXCERPT == 70
MIN_EXCERPT_DEV == 100
MinExcerpt(variant) == IF variant = "dev" THEN MIN_EXCERPT_DEV ELSE MIN_EXCERPT

\* The prompt of estimate_chapter_age, its fixed wording shortened to "by",
\* "born" and the dashes around the excerpt; the book variant asks for year
\* mentions too.
Prompt(variant, chapter_text, author_name, birth_year) ==
    LET birth_info == IF birth_year # 0
                      THEN Cat(Str(<<"b","o","r","n"," ">>), IntStr(birth_year))
                      ELSE <<>>
    IN  join(Rep("\n", 1),
             << Cat(Str(<<"b","y"," ">>), author_name), birth_info,
                Rep("-", 3), chapter_text, Rep("-", 3),
                IF variant = "dev" THEN <<>> ELSE Str(<<"y","e","a","r","s">>) >>)

SystemPrompt(variant) ==
    IF variant = "dev" THEN Str(<<"a","u","t","h","o","r">>)
    ELSE Str(<<"p","r","o","t","a","g","o","n","i","s","t">>)

\* s[n:]
RECURSIVE DropChars(_, _)
DropChars(t, n) ==
    IF n = 0 \/ t = <<>> THEN t
    ELSE IF t[1][2] <= n THEN DropChars(Tail(t), n - t[1][2])
    ELSE << <<t[1][1], t[1][2] - n>> >> \o Tail(t)

\* line.startswith(tag)
StartsWith(line, tag) ==
    /\ StrLen(line) >= StrLen(tag)
    /\ \A j \in 1..StrLen(tag) : CharAt(line, j) = CharAt(tag, j)

\* The number a str of digits spells, read from its first n characters.
RECURSIVE DigitsValue(_, _)
DigitsValue(t, n) ==
    IF n = 0 THEN 0
    ELSE 10 * DigitsValue(t, n - 1)
         + (CHOOSE d \in 0..9 : DigitChars[d + 1] = CharAt(t, n))

\* int(s): an optional sign and digits, surrounding whitespace allowed;
\* anything else raises ValueError.
int(s) ==
    LET t == strip(s)
        signed == CharAt(t, 1) \in {"-", "+"}
        digits == IF signed THEN DropChars(t, 1) ELSE t
    IN  IF digits # <<>> /\ \A k \in 1..Len(digits) : digits[k][1] \in ReDigit
        THEN Ok((IF CharAt(t, 1) = "-" THEN -1 ELSE 1)
                * DigitsValue(digits, StrLen(digits)))
        ELSE Err("ValueError")

\* An int | None: <<n>> or <<>>.
IntOrNone(parsed) == IF parsed.err = "" THEN <<parsed.val>> ELSE <<>>

ChapterAge(chapter_title, age_min, age_max, reasoning) ==
    [chapter_title |-> chapter_title, age_min |-> age_min, age_max |-> age_max,
     reasoning |-> reasoning]

\* line.replace(tag, "").strip() for a line that starts with tag and holds
\* it once.
AfterTag(line, tag) == strip(DropChars(line, StrLen(tag)))

\* parse.py lines 86-101: the loop over the lines of the response
RECURSIVE ParseLines(_, _)
ParseLines(lines, acc) ==
    IF lines = <<>> THEN acc
    ELSE LET line == lines[1]
         IN  ParseLines(Tail(lines),
                 IF StartsWith(line, AgeMin)
                 THEN [acc EXCEPT !.age_min = IntOrNone(int(AfterTag(line, AgeMin)))]
                 ELSE IF StartsWith(line, AgeMax)
                 THEN [acc EXCEPT !.age_max = IntOrNone(int(AfterTag(line, AgeMax)))]
                 ELSE IF StartsWith(line, Reasoning)
                 THEN [acc EXCEPT !.reasoning = AfterTag(line, Reasoning)]
                 ELSE acc)

\* parse.py: estimate_chapter_age, on the cache c, the API answering api
estimate_chapter_age(c, variant, chapter_text, author_name, birth_year, api) ==
    LET q == query(c, Prompt(variant, chapter_text, author_name, birth_year),
                   SystemPrompt(variant), api)
    IN  IF q.err # "" THEN q
        ELSE [q EXCEPT !.val = ParseLines(SplitLines(strip(q.val)),
                                          ChapterAge(<<>>, <<>>, <<>>, <<>>))]

\* dev/book/parse.py line 149: book.chapters[:max_chapters] if max_chapters
\* else book.chapters; the book variant takes no cap.
ToAnalyze(variant, book, capped, cap) ==
    IF variant = "dev" /\ capped /\ cap # 0
    THEN SubSeq(book.chapters, 1, IF cap < Len(book.chapters) THEN cap
                                  ELSE Len(book.chapters))
    ELSE book.chapters

BookAgeProfile(book_title, author, birth_year, ages) ==
    [book_title |-> book_title, author |-> author, birth_year |-> birth_year,
     chapter_ages |-> ages]

\* -------------------------------------------- analyze_book, run on its own
\* The text of a chapter of each kind; each has 500 characters or more.
ChapterText(kind) ==
    CASE kind = "epigraph" ->
            join(Rep("\n", 2), <<Old, Three, Prologue, Rep("y", 600)>>)
      [] kind = "seventy" ->
            join(Rep("\n", 2), <<Rep("x", 30), Rep("y", 30), Rep("z", 6), Rep("w", 600)>>)
      [] kind = "sixtynine" ->
            join(Rep("\n", 2), <<Rep("x", 30), Rep("y", 30), Rep("z", 5), Rep("w", 600)>>)
      [] kind = "triple" ->
            Cat(Cat(Rep("x", 49), Rep("\n", 3)), Rep("y", 600))
      [] OTHER -> Rep("x", 600)

ChapterKinds == {"long", "epigraph", "seventy", "sixtynine"}

MaxBook == 2

BookOfKinds(kinds) ==
    Book(Prologue, Old, [k \in 1..Len(kinds) |-> Chapter(ChapterN(k), ChapterText(kinds[k]))])

\* The arguments of analyze_book; birth_year 0 stands for None (both are
\* falsy at parse.py line 49).
AnalyzeInputs ==
    {[variant |-> v.variant, birth_year |-> v.birth_year, capped |-> v.capped,
      cap |-> v.cap, kinds |-> ks] :
        v \in {[variant |-> "book", birth_year |-> 0, capped |-> FALSE, cap |-> 0],
               [variant |-> "book", birth_year |-> 1950, capped |-> FALSE, cap |-> 0],
               [variant |-> "dev", birth_year |-> 1950, capped |-> FALSE, cap |-> 0],
               [variant |-> "dev", birth_year |-> 0, capped |-> TRUE, cap |-> 0],
               [variant |-> "dev", birth_year |-> 0, capped |-> TRUE, cap |-> 1]},
        ks \in SeqsUpTo(ChapterKinds \cup {"triple"}, MaxBook)}

AnalyzeOutcomes == {Ok(ReplyChild), Ok(ReplyAdult), Ok(ReplyVague), Err("APIError")}

\* ------------------------------------------------------------ ui/server.py
\* The characters of a str, one by one.
Chars(t) == [k \in 1..StrLen(t) |-> CharAt(t, k)]

\* str.split(): the maximal stretches without whitespace
split(t) ==
    LET cs == Chars(t)
        starts == {q \in 1..Len(cs) :
                      cs[q] \notin Whitespace /\ (q = 1 \/ cs[q - 1] \in Whitespace)}
        EndOf(q) == Min({e \in q..Len(cs) : e = Len(cs) \/ cs[e + 1] \in Whitespace})
    IN  [j \in 1..Cardinality(starts) |-> SubSeq(cs, Nth(starts, j), EndOf(Nth(starts, j)))]

\* part in filename_lower
Contains(hay, part) ==
    \E q \in 0..(Len(hay) - Len(part)) : \A j \in 1..Len(part) : hay[q + j] = part[j]

\* sum(1 for part in parts if part in filename_lower)
Hits(parts, filename_lower) ==
    Cardinality({k \in 1..Len(parts) : Contains(filename_lower, parts[k])})

\* server.py line 27: a word of the title counts when len(p) > 3
MIN_WORD == 3
\* server.py line 37: name_ratio > 0.66 and book_ratio >= 0.75, in hundredths
NAME_RATIO == 66
BOOK_RATIO == 75

LongWord(p) == Len(p) > MIN_WORD

\* server.py lines 29-39: the loop over the files from index k on; a
\* division by an empty list's length raises ZeroDivisionError.
RECURSIVE FilesLoop(_, _, _, _)
FilesLoop(files, k, name_parts, book_parts) ==
    IF k > Len(files) THEN Ok(0)
    ELSE IF Len(name_parts) = 0 \/ Len(book_parts) = 0 THEN Err("ZeroDivisionError")
    ELSE LET filename_lower == Chars(lower(files[k].name))
             name_hits == Hits(name_parts, filename_lower)
             book_hits == Hits(book_parts, filename_lower)
         IN  IF /\ 100 * name_hits > NAME_RATIO * Len(name_parts)
                /\ 100 * book_hits >= BOOK_RATIO * Len(book_parts)
             THEN Ok(k)
             ELSE FilesLoop(files, k + 1, name_parts, book_parts)

\* server.py: find_book_file over the .epub files of ./.books in directory
\* order; the value is the position of the file returned, 0 for None.
find_book_file(files, person_name, book_title) ==
    FilesLoop(files, 1, split(lower(person_name)),
              SelectSeq(split(lower(book_title)), LongWord))

\* The persons of ./book/persons.yaml, all of one category; birth_year 0
\* stands for a person without one.
Person(name, has_book, book, birth_year) ==
    [name |-> name, has_book |-> has_book, book |-> book, birth_year |-> birth_year]

AnnLee == Str(<<"A","n","n"," ","L","e","e">>)
BoRay == Str(<<"B","o"," ","R","a","y">>)
CyPoe == Str(<<"C","y"," ","P","o","e">>)
DiFox == Str(<<"D","i"," ","F","o","x">>)
MyLongStory == Str(<<"M","y"," ","L","o","n","g"," ","S","t","o","r","y">>)
AToZ == Str(<<"A"," ","t","o"," ","Z">>)
LostTale == Str(<<"L","o","s","t"," ","T","a","l","e">>)
AnnLeeFile ==
    Str(<<"A","n","n","_","L","e","e","-","L","o","n","g","_","S","t","o","r","y",
          ".","e","p","u","b">>)
NotesFile == Str(<<"n","o","t","e","s",".","e","p","u","b">>)

PersonsYaml ==
    << Person(AnnLee, TRUE, MyLongStory, 1950),
       Person(BoRay, FALSE, <<>>, 0),
       Person(CyPoe, TRUE, AToZ, 1950),
       Person(DiFox, TRUE, LostTale, 0),
       Person(BoRay, TRUE, <<>>, 0) >>

\* server.py: load_persons; full_name.split()[0] raises IndexError for a
\* name without a word.
load_persons(data) ==
    IF \E k \in 1..Len(data) : split(data[k].name) = <<>> THEN Err("IndexError")
    ELSE Ok(data)

\* person.get("book", "")
BookTitleOf(person) == IF person.has_book THEN person.book ELSE <<>>

\* load_epub(book_file): the Document of the file, or the error the loader
\* raises for a file that is no archive.
LoadedBook(file) ==
    IF file.corrupt THEN Err("BadZipFile") ELSE Ok(BookOfKinds(file.kinds))

\* send_json(data, status)
Response(status, data) == [status |-> status, body |-> data]

\* The last segment of the request path, and the .epub files of ./.books.
PathSegments ==
    {IntStr(0), IntStr(1), IntStr(2), IntStr(3), IntStr(4), IntStr(5),
     Cat(Rep("-", 1), IntStr(1)), Old, <<>>}

EpubFile(name, corrupt, kinds) == [name |-> name, corrupt |-> corrupt, kinds |-> kinds]

ServerInputs ==
    {[x |-> x, files |-> fs] :
        x \in PathSegments,
        fs \in {<<>>, << EpubFile(AnnLeeFile, FALSE, <<"long">>) >>,
                << EpubFile(NotesFile, FALSE, <<"long">>),
                   EpubFile(AnnLeeFile, TRUE, <<"long">>) >>}}
    \cup {[x |-> IntStr(0), files |-> << EpubFile(AnnLeeFile, FALSE, ks) >>] :
            ks \in SeqsUpTo(ChapterKinds, MaxBook)}

\* The person asked for and the file found for them, once the handler got
\* that far.
AskedPerson == PersonsYaml[int(input.x).val + 1]
FoundFile ==
    input.files[find_book_file(input.files, AskedPerson.name, BookTitleOf(AskedPerson)).val]

\* The book under analysis, the arguments of analyze_book and the chapters
\* its loop runs over; the UI handler calls the book variant without a cap.
AnalysedBook ==
    IF op = "do_GET" THEN LoadedBook(FoundFile).val ELSE BookOfKinds(input.kinds)
Variant == IF op = "do_GET" THEN "book" ELSE input.variant
BirthYear == IF op = "do_GET" THEN AskedPerson.birth_year ELSE input.birth_year
Todo ==
    IF op = "do_GET" THEN ToAnalyze("book", AnalysedBook, FALSE, 0)
    ELSE ToAnalyze(input.variant, AnalysedBook, input.capped, input.cap)
InLoop ==
    \/ op = "analyze_book" /\ pc = "call"
    \/ op = "do_GET" /\ pc = "analyze"

\* parse.py lines 121-128: one iteration of the loop of analyze_book
AnalyzeChapter ==
    /\ InLoop /\ i < Len(Todo)
    /\ LET chapter == Todo[i + 1]
           first_paragraphs == _get_first_paragraphs(chapter.text)
       IN  IF StrLen(first_paragraphs) < MinExcerpt(Variant)
           THEN /\ i' = i + 1
                /\ UNCHANGED <<pc, outcome, cache, api_calls, chapter_ages, origin>>
           ELSE \E api \in AnalyzeOutcomes :
                  LET e == estimate_chapter_age(cache, Variant, first_paragraphs,
                                                AnalysedBook.author, BirthYear, api)
                  IN  /\ cache' = e.cache
                      /\ api_calls' =
                            IF e.called
                            THEN Append(api_calls,
                                    [messages |-> Messages(
                                        Prompt(Variant, first_paragraphs,
                                               AnalysedBook.author, BirthYear),
                                        SystemPrompt(Variant)),
                                     call |-> i + 1])
                            ELSE api_calls
                      /\ IF e.err # ""
                         THEN /\ outcome' = "error" /\ pc' = "done"
                              /\ UNCHANGED <<chapter_ages, origin, i>>
                         ELSE /\ chapter_ages' =
                                    Append(chapter_ages,
                                           [e.val EXCEPT !.chapter_title = chapter.title])
                              /\ origin' = Append(origin, i + 1)
                              /\ i' = i + 1
                              /\ UNCHANGED <<pc, outcome>>
    /\ UNCHANGED <<op, input, handle, opens, locals, chapters, cands, result,
                    parser, pos, outs, responses>>

\* parse.py lines 130-135
AnalyzeReturn ==
    /\ op = "analyze_book" /\ pc = "call" /\ i = Len(Todo)
    /\ result' = BookAgeProfile(AnalysedBook.title, AnalysedBook.author,
                                input.birth_year, chapter_ages)
    /\ outcome' = "ok" /\ pc' = "done"
    /\ UNCHANGED <<op, input, handle, opens, locals, i, chapters, cands, origin,
                    parser, pos, outs, cache, api_calls, chapter_ages, responses>>

NextAnalyze == AnalyzeChapter \/ AnalyzeReturn

\* --------------------------------------- do_GET for /api/book/<x>, run on
\* its own.  An exception that leaves the handler ends the request without
\* a response.
Escapes ==
    /\ outcome' = "error" /\ pc' = "done" /\ UNCHANGED responses

Send(status, data) ==
    /\ responses' = Append(responses, Response(status, data))
    /\ outcome' = "ok" /\ pc' = "done"

\* server.py lines 54-64 and 76-81: up to the call of analyze_book
ServeBook ==
    /\ op = "do_GET" /\ pc = "call"
    /\ LET person_idx == int(input.x)
           persons == load_persons(PersonsYaml)
       IN  IF person_idx.err = "ValueError" \/ persons.err = "IndexError"
           THEN Send(400, [error |-> "Invalid request"])
           ELSE IF ~(0 <= person_idx.val /\ person_idx.val < Len(persons.val))
           THEN Send(404, [error |-> "Person not found"])
           ELSE LET person == persons.val[person_idx.val + 1]
                    book_file == find_book_file(input.files, person.name,
                                                BookTitleOf(person))
                IN  IF book_file.err # "" THEN Escapes
                    ELSE IF book_file.val = 0
                    THEN Send(404, [error |-> "Book not found"])
                    ELSE IF LoadedBook(input.files[book_file.val]).err # "" THEN Escapes
                    ELSE /\ pc' = "analyze"
                         /\ UNCHANGED <<outcome, responses>>
    /\ UNCHANGED <<op, input, handle, opens, locals, i, chapters, cands, origin,
                    result, parser, pos, outs, cache, api_calls, chapter_ages>>

\* server.py lines 64-73: the profile is returned and the book is sent
ServeSend ==
    /\ op = "do_GET" /\ pc = "analyze" /\ i = Len(Todo)
    /\ LET book == AnalysedBook
           profile == BookAgeProfile(book.title, book.author, BirthYear, chapter_ages)
       IN  Send(200,
                [title |-> book.title, author |-> book.author,
                 chapters |->
                    [k \in 1..Len(book.chapters) |->
                        [title |-> book.chapters[k].title,
                         text |-> book.chapters[k].text,
                         age_min |-> IF k <= Len(profile.chapter_ages)
                                     THEN profile.chapter_ages[k].age_min ELSE <<>>,
                         age_max |-> IF k <= Len(profile.chapter_ages)
                                     THEN profile.chapter_ages[k].age_max ELSE <<>>]]])
    /\ UNCHANGED <<op, input, handle, opens, locals, i, chapters, cands, origin,
                    result, parser, pos, outs, cache, api_calls, chapter_ages>>

NextServer == ServeBook \/ ServeSend

Init ==
    \/ \E a \in EpubInputs : Start("load_epub", a)
    \/ \E d \in PdfInputs : Start("load_pdf", d)
    \/ \E fn \in NormalizeFns : \E t \in TextInputs : Start(fn, t)
    \/ \E ev \in ExtractInputs : Start("_extract_text_from_html", ev)
    \/ \E d \in TitleDocs : Start("_extract_chapter_title", d)
    \/ \E d \in DetectInputs : Start("_detect_chapters_by_headings", d)
    \/ Start("query", "llm")
    \/ \E b \in AnalyzeInputs : Start("analyze_book", b)
    \/ \E r \in ServerInputs : Start("do_GET", r)

Next == NextEpub \/ NextPdf \/ NextText \/ NextDetect \/ NextQuery
        \/ NextAnalyze \/ NextServer

Spec == Init /\ [][Next]_vars


\* ------------------------------------------------------------------ claims
Loads == {"load_epub", "load_pdf"}
Returned == op \in Loads /\ pc = "done" /\ outcome = "ok"

\* The spine entry examined as candidate k of an archive load.
CandHref(k) == locals.spine_items[cands[k] + 1][2]
CandContent(k) ==
    ReadDecode(Archive(input), StripFragment(Resolve(locals.opf_dir, CandHref(k))))

\* The text of candidate k: the extracted text of its spine entry, or the
\* normalized text of its page range.
CandText(k) ==
    IF op = "load_epub" THEN _extract_text_from_html(CandContent(k).val.events)
    ELSE _normalize_text(PagesText(Pdf(input), cands[k][1], cands[k][2]))

\* Where candidate k stands in reading order.
CandPlace(k) == IF op = "load_epub" THEN cands[k] ELSE cands[k][1]

ChapterOk(c) ==
    /\ StrLen(c.text) >= MIN_CHAPTER_LEN
    /\ strip(lower(c.title)) \notin NON_CONTENT_TITLES

\* C1: every chapter of a Document returned by load_epub or load_pdf, on
\* every path, has at least 500 characters of text and a title that,
\* lower-cased and trimmed, is not in the front/back-matter exclusion set.
C1_FloorAndExclusion ==
    op \in Loads =>
        /\ \A k \in 1..Len(chapters) : ChapterOk(chapters[k])
        /\ \A k \in 1..Len(result.chapters) : ChapterOk(result.chapters[k])

\* An archive whose cover (600 characters, titled "Cover") and whose short
\* entry were dropped and whose 500-character entry was kept.
C1_Witness ==
    /\ Returned /\ op = "load_epub"
    /\ input.cover = "long_titled" /\ input.spine = <<"cover", "ch3", "ch2">>
    /\ Len(result.chapters) = 1

\* C2: the chapters of a returned Document are an order-preserving
\* subsequence of the candidates: each chapter is built from one candidate,
\* chapter j precedes chapter k exactly when its candidate comes earlier in
\* reading order (spine order, first page), and a dropped candidate leaves
\* nothing behind.
C2_OrderPreserved ==
    Returned =>
        /\ Len(result.chapters) = Len(origin)
        /\ \A k \in 1..Len(origin) :
              /\ origin[k] \in 1..Len(cands)
              /\ result.chapters[k].text = CandText(origin[k])
        /\ \A j, k \in 1..Len(origin) :
              j < k <=> CandPlace(origin[j]) < CandPlace(origin[k])

\* Two chapters kept around a dropped candidate.
C2_Witness ==
    /\ Returned /\ Len(cands) = 3 /\ origin = <<1, 3>>
    /\ result.chapters[1] # result.chapters[2]


\* The navigation label held for the path (fragment stripped) of the spine
\* entry chapter k was built from, or None.
NavLabel(k) == DictGet(locals.ncx_titles, StripFragment(CandHref(origin[k])))

\* C3: on the archive path, the title of a chapter built from a spine entry
\* for whose path (fragment stripped) the navigation index holds a label is
\* that label.
C3_NavLabelWins ==
    op = "load_epub" =>
        \A k \in 1..Len(chapters) :
            NavLabel(k) # None => chapters[k].title = NavLabel(k)

\* The scenario of C4: spine cover, ch1 (1200 characters, no heading), ch2
\* (300 characters), the index mapping only ch1 to "The Beginning", the
\* manifest paths as written (no fragment).
C4_Archive ==
    /\ op = "load_epub"
    /\ input.spine = <<"cover", "ch1", "ch2">>
    /\ input.nav = "c4" /\ ~input.frag /\ input.fault = "none"

C4_OneChapter ==
    result.chapters = <<Chapter(TheBeginning, Rep("x", 1200))>>

\* C4 as stated: whatever the cover entry holds, load_epub returns exactly
\* the chapter "The Beginning" with ch1's text.
C4_Scenario == (Returned /\ C4_Archive) => C4_OneChapter

\* The cover entry of the archive: its extracted text and resolved title.
CoverEntry == Archive(input).entries[PathOf(input.dir, "cover.xhtml", "")]
CoverText == _extract_text_from_html(CoverEntry.events)
CoverTitle_resolved == _extract_chapter_title(CoverEntry, ChapterN(1))

\* C4, amended: the same, when the cover entry's text has fewer than 500
\* characters or its resolved title is in the exclusion set.
C4_ScenarioCoverDropped ==
    (/\ Returned /\ C4_Archive
     /\ \/ StrLen(CoverText) < MIN_CHAPTER_LEN
        \/ strip(lower(CoverTitle_resolved)) \in NON_CONTENT_TITLES)
    => C4_OneChapter

\* The scenario with a 600-character cover entry titled "Cover".
C4_Witness ==
    /\ Returned /\ C4_Archive /\ input.cover = "long_titled"
    /\ cands = <<0, 1, 2>> /\ origin = <<2>> /\ Len(result.chapters) = 1

ABText == Str(<<"A", "\n", "B">>)

\* C5: the text extracted from <div>A</div><script>ignored</script><p>B</p>
\* is A, newline, B.
C5_DivScriptP ==
    (op = "_extract_text_from_html" /\ pc = "done" /\ input = DivScriptP)
    => outs = <<ABText>>

\* That markup, fed whole: A, newline, B, newline in the buffer.
C5_Witness ==
    /\ op = "_extract_text_from_html" /\ pc = "done" /\ input = DivScriptP
    /\ pos = 9 /\ Len(parser.parts) = 4 /\ parser.depth = 0

\* C6: normalization is idempotent, for get_text's and for _normalize_text:
\* applied to its own output it returns that output.
C6_Idempotent ==
    (op \in NormalizeFns /\ pc = "done") => outs[2] = outs[1]

\* A text the normalization changes: "a\n\n\naa" becomes "a\n\naa", twice.
C6_Witness ==
    /\ op = "_normalize_text" /\ pc = "done"
    /\ input = << <<"a", 1>>, <<"\n", 3>>, <<"a", 2>> >>
    /\ outs[1] = << <<"a", 1>>, <<"\n", 2>>, <<"a", 2>> >>
    /\ Len(outs) = 2


\* The text of the pages first .. end - 1, normalized.
RangeText(first, end) == _normalize_text(PagesText(Pdf(input), first, end))

\* C7: with accepted headings on pages p1 < ... < pk of an n-page document,
\* candidate i is built from exactly the pages [p_i, p_(i+1)), the last from
\* [p_k, n); the ranges are pairwise disjoint and cover p1 .. n - 1.  For 25
\* pages with headings on pages 0 and 10 and enough text: two chapters, of
\* pages 0-9 and 10-24.
C7_HeadingRanges ==
    (op = "load_pdf" /\ locals.boundaries # <<>>) =>
        LET b == locals.boundaries
            n == input.n
        IN  /\ \A j, k \in 1..Len(b) : j < k => b[j][1] < b[k][1]
            /\ Len(cands) <= Len(b)
            /\ \A k \in 1..Len(cands) :
                  cands[k] = <<b[k][1], IF k < Len(b) THEN b[k + 1][1] ELSE n>>
            /\ \A j, k \in 1..Len(cands) : j < k => cands[j][2] <= cands[k][1]
            /\ \A k \in 1..Len(chapters) :
                  chapters[k].text = RangeText(cands[origin[k]][1], cands[origin[k]][2])
            /\ pc = "done" =>
                  /\ Len(cands) = Len(b)
                  /\ UNION {cands[k][1]..(cands[k][2] - 1) : k \in 1..Len(cands)}
                        = b[1][1]..(n - 1)
            /\ (/\ pc = "done" /\ n = 25 /\ input.heads = {0, 10}
                /\ input.body \in {"mid", "ragged", "exact"}) =>
                  /\ cands = << <<0, 10>>, <<10, 25>> >>
                  /\ origin = <<1, 2>>
                  /\ Len(result.chapters) = 2

\* 25 pages, headings on pages 0 and 10, 60 characters a page.
C7_Witness ==
    /\ Returned /\ op = "load_pdf"
    /\ input.n = 25 /\ input.heads = {0, 10} /\ input.body = "mid"
    /\ Len(locals.boundaries) = 2 /\ Len(result.chapters) = 2

\* The chunk candidates of an n-page document: pages [10k, min(10k + 10, n))
\* titled "Section k+1", for k = 0, 1, ...
ChunkCandidates(n) ==
    [k \in 1..((n + 9) \div 10) |->
        Chapter(SectionN(k),
                RangeText(10 * (k - 1), IF 10 * k < n THEN 10 * k ELSE n))]

AboveFloor(c) == StrLen(c.text) >= 500

Texts(cs) == [k \in 1..Len(cs) |-> cs[k].text]

\* C8: with zero accepted headings, a document of at most 20 pages gives the
\* single chapter of all its text, a longer one the 10-page chunks titled
\* "Section k+1", each candidate being subject only to the length floor (it
\* is dropped when it has fewer than 500 characters).
C8_ZeroHeadingFallback ==
    (Returned /\ op = "load_pdf" /\ locals.boundaries = <<>>) =>
        IF input.n <= 20
        THEN Texts(result.chapters)
                = Texts(SelectSeq(<<Chapter(<<>>, RangeText(0, input.n))>>, AboveFloor))
        ELSE result.chapters = SelectSeq(ChunkCandidates(input.n), AboveFloor)

\* What a load has examined when it returns: every spine entry, every
\* heading range, or (zero headings) nothing or pages up to the last one.
AllExamined ==
    IF op = "load_epub" THEN Len(cands) = Len(locals.spine_items)
    ELSE IF locals.boundaries # <<>> THEN Len(cands) = Len(locals.boundaries)
    ELSE cands = <<>> \/ cands[Len(cands)][2] = input.n

\* C9: a load ends either in one error and no Document, or in a Document
\* built after every spine entry / page range was examined; an invalid
\* container, a missing or malformed bootstrap descriptor or manifest end
\* in the error.  No Document reaches the caller before the end.
C9_ErrorOrWholeDocument ==
    op \in Loads =>
        /\ pc # "done" => (outcome = "none" /\ result = NoBook)
        /\ pc = "done" =>
              \/ outcome = "error" /\ result = NoBook
              \/ /\ outcome = "ok" /\ result.chapters = chapters /\ AllExamined
                 /\ op = "load_epub" => input.fault = "none"
                 /\ op = "load_pdf" => input.valid

\* An archive load that had built a chapter when a later entry failed to
\* decode: the caller gets the error only.
C9_Witness ==
    /\ op = "load_epub" /\ pc = "done" /\ outcome = "error"
    /\ input.spine = <<"ch1", "bad">> /\ Len(chapters) = 1 /\ result = NoBook

\* C10: the container is opened at most once per load, every read happens
\* while it is open, and it is closed when the load ends, by a return or by
\* an error; it is never left open.
C10_HandleScoped ==
    op \in Loads =>
        /\ opens <= 1
        /\ pc = "call" => (handle = "none" /\ opens = 0)
        /\ pc \notin {"call", "done"} => (handle = "open" /\ opens = 1)
        /\ pc = "done" => handle = (IF opens = 1 THEN "closed" ELSE "none")

\* The handle closed by an error raised while a content entry was read.
C10_Witness ==
    /\ op = "load_epub" /\ pc = "done" /\ outcome = "error"
    /\ Len(cands) = 2 /\ i = 2 /\ opens = 1 /\ handle = "closed"


\* C11: whatever the state of the navigation index the manifest names
\* (absent, undecodable, malformed, without navigation points), the step of
\* load_epub that parses it goes on to the spine with a mapping drawn from
\* the index's navigation points; it never ends the load in an error.
C11_NavNeverFatal ==
    [][(op = "load_epub" /\ pc = "ncx") =>
          /\ pc' = "spine" /\ outcome' = "none"
          /\ \A key \in DOMAIN locals'.ncx_titles :
                \E n \in 1..Len(NavPoints(input.nav)) :
                    LET np == NavPoints(input.nav)[n]
                    IN  /\ np.has_content /\ Truthy(np.label)
                        /\ key = StripFragment(np.src)
                        /\ locals'.ncx_titles[key] = strip(np.label)]_vars


\* The spine entry examined as candidate k names no entry of the container.
Missing(k) == CandContent(k).err = "KeyError"

Range(q) == {q[k] : k \in 1..Len(q)}

\* C12: on the archive path a spine entry that names no entry of the
\* container is passed over and gives no chapter, and the load goes on: with
\* nothing else wrong, every spine entry is examined and a Document returned.
C12_MissingEntrySkipped ==
    op = "load_epub" =>
        /\ \A k \in 1..Len(cands) : Missing(k) => k \notin Range(origin)
        /\ (/\ pc = "done" /\ input.fault = "none"
            /\ input.nav # "undecodable" /\ "bad" \notin Range(input.spine)) =>
              /\ outcome = "ok"
              /\ Len(cands) = Len(locals.spine_items)
              /\ cands = [k \in 1..Len(cands) |-> k - 1]

\* A missing entry passed over, the entries after it examined, one kept.
C12_Witness ==
    /\ Returned /\ op = "load_epub"
    /\ Len(cands) = 3 /\ Missing(1) /\ origin = <<2>> /\ ~Missing(3)


\* The number of newlines in runs j .. k of t.
RECURSIVE Newlines(_, _, _)
Newlines(t, j, k) ==
    IF j > k THEN 0
    ELSE (IF t[j][1] = "\n" THEN t[j][2] ELSE 0) + Newlines(t, j + 1, k)

\* Runs j .. k of t hold nothing but newlines and spaces.
BlankStretch(t, j, k) == \A m \in j..k : t[m][1] \in {"\n", " "}

\* Three blank lines in a row lie between four newlines with only spaces
\* among them.
Normalized(t) ==
    /\ \A k \in 1..Len(t) : t[k][1] \notin {"\t", "\r", "\f"}
    /\ \A k \in 1..Len(t) : t[k][1] = "\n" => t[k][2] <= 2
    /\ \A k \in 1..Len(t) : t[k][1] = " " => t[k][2] = 1
    /\ t # <<>> => (t[1][1] \notin Whitespace /\ t[Len(t)][1] \notin Whitespace)
    /\ \A j, k \in 1..Len(t) :
          (j <= k /\ BlankStretch(t, j, k)) => Newlines(t, j, k) < 4

\* C13: the text of every chapter of a returned Document holds no control
\* character other than newline, no 3 or more blank lines in a row (empty or
\* holding only spaces), no 3 or more newlines in a row, no 2 or more
\* spaces/tabs in a row, and no leading or trailing whitespace.
C13_ChapterTextNormalized ==
    Returned => \A k \in 1..Len(result.chapters) : Normalized(result.chapters[k].text)


\* The title and the author the document's metadata declare, "" when none:
\* dc:title and dc:creator of the manifest, Title and Author of the PDF.
MetaTitle ==
    IF op = "load_epub"
    THEN LET t == Archive(input).entries[OpfPath(input)].title
         IN  IF Truthy(t) THEN t ELSE <<>>
    ELSE FirstTruthy(<<MetaGet(Pdf(input).metadata, "Title"),
                       MetaGet(Pdf(input).metadata, "title")>>)

MetaAuthor ==
    IF op = "load_epub"
    THEN LET a == Archive(input).entries[OpfPath(input)].creator
         IN  IF Truthy(a) THEN a ELSE <<>>
    ELSE FirstTruthy(<<MetaGet(Pdf(input).metadata, "Author"),
                       MetaGet(Pdf(input).metadata, "author")>>)

\* The values a file name gives: its stem, and its name with the suffix.
FileNameDerived ==
    {BookStem, Cat(BookStem, Str(<<".","e","p","u","b">>)),
     Cat(BookStem, Str(<<".","p","d","f">>))}

\* C14: in a returned Document the title is the metadata title when that
\* is non-empty and otherwise a value derived from the file name, and the
\* author is the metadata author when that is non-empty and otherwise a
\* value derived from the file name.
C14_TitleAuthorDefaults ==
    Returned =>
        /\ IF MetaTitle # <<>> THEN result.title = MetaTitle
           ELSE result.title \in FileNameDerived
        /\ IF MetaAuthor # <<>> THEN result.author = MetaAuthor
           ELSE result.author \in FileNameDerived

\* The title half of C14 alone.
C14_TitleDefault ==
    Returned =>
        IF MetaTitle # <<>> THEN result.title = MetaTitle
        ELSE result.title \in FileNameDerived


\* The title candidate k of a load with spine entries or headings gets.
CandTitle(k) ==
    IF op = "load_epub"
    THEN ResolveTitle(locals.ncx_titles, CandHref(k), CandContent(k).val, cands[k] + 1)
    ELSE locals.boundaries[k][2]

\* The candidates of the zero-heading fallback of an n-page document.
FallbackCandidates(n) ==
    IF n <= 20 THEN <<Chapter(ContentTitle, RangeText(0, n))>>
    ELSE ChunkCandidates(n)

\* C15: the length floor is the same on every path: a candidate is dropped
\* for length exactly when its normalized text has fewer than 500
\* characters, so one of exactly 500 characters with a title that is not
\* excluded is kept on the archive path, on the heading path and on the
\* zero-heading fallback (single chapter and 10-page chunks).
C15_SameFloor ==
    Returned =>
        IF op = "load_epub" \/ locals.boundaries # <<>>
        THEN \A k \in 1..Len(cands) :
                (op = "load_epub" => CandContent(k).err = "") =>
                    (k \in Range(origin) <=>
                        /\ StrLen(CandText(k)) >= 500
                        /\ is_content_chapter(CandTitle(k)))
        ELSE Texts(result.chapters)
                = Texts(SelectSeq(FallbackCandidates(input.n), AboveFloor))

\* C15 on the archive path and the heading path, where it holds.
C15_FloorWithCandidates ==
    (op = "load_epub" \/ locals.boundaries # <<>>) => C15_SameFloor


\* The number of script, style and head elements open after the first k of
\* the events ev; a close with none open closes nothing.
RECURSIVE OpenZones(_, _)
OpenZones(ev, k) ==
    IF k = 0 THEN 0
    ELSE LET before == OpenZones(ev, k - 1)
         IN  CASE ev[k][1] = "start" /\ ev[k][2] \in SkipTags -> before + 1
               [] ev[k][1] = "end" /\ ev[k][2] \in SkipTags ->
                    IF before > 0 THEN before - 1 ELSE 0
               [] OTHER -> before

\* What the events outside every zone contribute: their text data, and one
\* newline for each block-level close.
RECURSIVE OutsideZones(_, _)
OutsideZones(ev, k) ==
    IF k = 0 THEN <<>>
    ELSE LET sofar == OutsideZones(ev, k - 1)
         IN  IF OpenZones(ev, k - 1) > 0 THEN sofar
             ELSE CASE ev[k][1] = "data" -> Append(sofar, ev[k][2])
                    [] ev[k][1] = "end" /\ ev[k][2] \in BlockTags ->
                          Append(sofar, Rep("\n", 1))
                    [] OTHER -> sofar

\* C16: in the markup extractor, for any sequence of start-tag, end-tag and
\* text events, nothing that occurs while a script, style or head element is
\* open reaches the extracted text (no text data, no newline of a block
\* closed in the zone), zones nest, and text after the last zone is closed
\* is included again: the extracted text is that of the events outside
\* every zone.
C16_ZonesExcluded ==
    (op = "_extract_text_from_html" /\ pc = "done") =>
        outs[1] = get_text(OutsideZones(input, Len(input)))

\* C16 for markup in which every zone that is closed was opened before and
\* no block-level element is closed inside a zone.
C16_BalancedZones ==
    (/\ op = "_extract_text_from_html" /\ pc = "done"
     /\ \A k \in 1..Len(input) :
           /\ (input[k][1] = "end" /\ input[k][2] \in SkipTags)
                 => OpenZones(input, k - 1) > 0
           /\ (input[k][1] = "end" /\ input[k][2] \in BlockTags)
                 => OpenZones(input, k - 1) = 0) =>
        outs[1] = get_text(OutsideZones(input, Len(input)))


\* C17: in the markup extractor the close of a block-level element (p, div,
\* br, h1-h6, li) appends exactly one newline to the buffer, the close of
\* any other element and every start tag append nothing, and the buffer is
\* append-only: each event leaves what it holds in place, and get_text
\* reads it once, at the end, without changing it.
C17_BlockCloseNewline ==
    [][op = "_extract_text_from_html" =>
          IF pos' = pos + 1
          THEN LET ev == input[pos']
               IN  /\ pc = "call" /\ outs' = <<>>
                   /\ CASE ev[1] = "end" /\ ev[2] \in BlockTags ->
                              parser'.parts = Append(parser.parts, Rep("\n", 1))
                        [] ev[1] = "data" ->
                              parser'.parts \in {parser.parts, Append(parser.parts, ev[2])}
                        [] OTHER -> parser'.parts = parser.parts
          ELSE /\ pos = Len(input) /\ pc = "call" /\ pc' = "done"
               /\ parser' = parser
               /\ outs = <<>> /\ outs' = <<get_text(parser.parts)>>]_vars

\* A start tag, the close of an inline element and the close of a block
\* dispatched: the buffer holds the one newline.
C17_Witness ==
    /\ op = "_extract_text_from_html" /\ pc = "done"
    /\ input = << <<"start", "p">>, <<"end", "span">>, <<"end", "p">> >>
    /\ parser.parts = <<Rep("\n", 1)>>


\* The manifest items of the archive that declare an HTML/XHTML media type.
HtmlItems ==
    {it \in Range(Manifest(input)) :
        it.media_type \in {"application/xhtml+xml", "text/html"}}

\* The positions of the spine references that name such an item.
Resolved == {k \in 1..Len(input.spine) : \E it \in HtmlItems : it.id = input.spine[k]}

\* C18: the spine the manifest resolver returns is, in document order, the
\* spine references whose identifier is in the item mapping, each paired
\* with that item's path, where the item mapping holds exactly the manifest
\* items of an HTML/XHTML media type; a reference to an unknown identifier
\* or to an item of another type gives no entry and no error, a repeated
\* reference one entry per occurrence.
C18_SpineResolved ==
    (op = "load_epub" /\ input.fault = "none" /\ pc \notin {"call", "rootfile", "opf"}) =>
        /\ Len(locals.spine_items) = Cardinality(Resolved)
        /\ \A j \in 1..Len(locals.spine_items) :
              LET id == input.spine[Nth(Resolved, j)]
              IN  /\ locals.spine_items[j][1] = id
                  /\ \E it \in HtmlItems :
                        it.id = id /\ locals.spine_items[j][2] = it.href

\* A spine naming an item of another type, then the same item twice.
C18_Witness ==
    /\ op = "load_epub" /\ pc = "spine"
    /\ input.spine = <<"css", "ch1", "ch1">>
    /\ Len(locals.spine_items) = 2
    /\ locals.spine_items[1] = locals.spine_items[2]


\* The navigation points of the index that have a label and a target.
Labelled ==
    LET nps == NavPoints(input.nav)
    IN  {n \in 1..Len(nps) :
            Truthy(nps[n].label) /\ nps[n].has_content /\ nps[n].has_src}

\* The last navigation point with a label that targets key.
LastFor(key) ==
    Max({n \in Labelled : StripFragment(NavPoints(input.nav)[n].src) = key})

NavKeys == {StripFragment(NavPoints(input.nav)[n].src) : n \in Labelled}

\* The navigation step of an archive load is over.
NavParsed == op = "load_epub" /\ (pc = "spine" \/ (pc = "done" /\ outcome = "ok"))

\* C19: the navigation mapping is keyed by the target path with the
\* fragment removed, holds one entry per distinct key, for a key targeted by
\* several navigation points the label of the last one in document order,
\* and no entry for a navigation point without a label or without a target.
C19_NavMapping ==
    NavParsed =>
        /\ DOMAIN locals.ncx_titles = NavKeys
        /\ \A key \in NavKeys :
              locals.ncx_titles[key] = strip(NavPoints(input.nav)[LastFor(key)].label)

\* C19 for the keys that name a path: last label wins, fragment removed.
C19_NavMappingOfPaths ==
    NavParsed =>
        /\ NavKeys \subseteq DOMAIN locals.ncx_titles
        /\ \A key \in NavKeys :
              locals.ncx_titles[key] = strip(NavPoints(input.nav)[LastFor(key)].label)
        /\ \A key \in DOMAIN locals.ncx_titles : key \in NavKeys \/ key.name = ""


\* Every element of the markup in document order, the top-level ones too.
AllElements(xml) == Descendants(El(Tag("", "root"), None, xml.tops))

\* The text of the first element of the document with this name, None when
\* there is none or it has no text.
FirstNamed(xml, local) ==
    LET els == AllElements(xml)
        hits == {k \in 1..Len(els) : els[k].tag.local = local}
    IN  IF hits = {} THEN None ELSE els[Min(hits)].text

\* The candidates in priority order: the document's title element, its
\* first h1, first h2, first h3.
TitleCandidates(xml) ==
    <<FirstNamed(xml, "title"), FirstNamed(xml, "h1"),
      FirstNamed(xml, "h2"), FirstNamed(xml, "h3")>>

Qualifies(text) ==
    Truthy(text) /\ strip(text) # <<>> /\ StrLen(strip(text)) < 100

\* The title the markup gives: the first candidate that qualifies, trimmed.
TitleOf(xml, fallback) ==
    LET c == TitleCandidates(xml)
        good == {k \in 1..Len(c) : Qualifies(c[k])}
    IN  IF ~xml.wellformed \/ good = {} THEN fallback ELSE strip(c[Min(good)])

\* C20: title extraction returns, when the markup parses (as it stands or
\* inside a synthetic root), the trimmed text of the first of [document
\* title element, first h1, first h2, first h3] whose trimmed text is
\* non-empty and shorter than 100 characters; when the markup does not
\* parse or no candidate qualifies, the fallback unchanged.
C20_TitleFromMarkup ==
    (op = "_extract_chapter_title" /\ pc = "done") =>
        outs[1] = TitleOf(TitleDoc(input), TitleFallback)

\* C20 for markup without namespace that holds two or more elements side
\* by side, the title element among the top-level ones.
C20_TitleOfFragments ==
    (/\ op = "_extract_chapter_title" /\ pc = "done"
     /\ input.shape = "fragment" /\ input.ns = ""
     /\ Len(TitleDoc(input).tops) >= 2) =>
        outs[1] = TitleOf(TitleDoc(input), TitleFallback)

\* The title the stated order gives candidate k: the navigation label held
\* for the entry's path (fragment stripped), else the markup title, else
\* "Chapter N" with N the entry's spine position.
ResolvedTitle(k) ==
    LET label == DictGet(locals.ncx_titles, StripFragment(CandHref(k)))
    IN  IF Truthy(label) THEN label
        ELSE _extract_chapter_title(CandContent(k).val, ChapterN(cands[k] + 1))

\* The chapter built from candidate k.
ChapterFrom(k) == chapters[CHOOSE j \in 1..Len(origin) : origin[j] = k]

\* Candidate k was read and passed the length floor.
LongEnough(k) ==
    CandContent(k).err = "" /\ StrLen(CandText(k)) >= MIN_CHAPTER_LEN

\* C21: on the archive path the title of an entry is its navigation label,
\* else its markup title, else "Chapter N", and the front/back-matter test
\* looks at that resolved title only: an entry that passed the length floor
\* is kept exactly when its resolved title is not in the exclusion set, and
\* the chapter carries the resolved title.
C21_ResolvedTitleOnly ==
    op = "load_epub" =>
        \A k \in 1..Len(cands) :
            LongEnough(k) =>
                /\ k \in Range(origin) <=> is_content_chapter(ResolvedTitle(k))
                /\ k \in Range(origin) => ChapterFrom(k).title = ResolvedTitle(k)

\* C21 for entries whose manifest href carries no fragment, where it holds.
C21_ResolvedTitleOfPlainHrefs ==
    op = "load_epub" =>
        \A k \in 1..Len(cands) :
            (LongEnough(k) /\ CandHref(k).frag = "") =>
                /\ k \in Range(origin) <=> is_content_chapter(ResolvedTitle(k))
                /\ k \in Range(origin) => ChapterFrom(k).title = ResolvedTitle(k)

\* An entry labelled "Index" with heading "Three" dropped, and a cover
\* labelled "Prologue" with heading "Cover" kept.
C21_LabelDecides ==
    /\ Returned /\ op = "load_epub" /\ input.nav = "full"
    /\ input.cover = "long_titled" /\ input.spine = <<"ch3", "cover">>
    /\ Len(result.chapters) = 1 /\ result.chapters[1].title = Prologue

\* The heading detector has run: the pages it read and the list it returned.
Detected ==
    \/ op = "_detect_chapters_by_headings" /\ pc = "done"
    \/ op = "load_pdf" /\ opens = 1 /\ pc \notin {"call", "detect"}
DocPages == IF op = "load_pdf" THEN Pdf(input).pages ELSE DetectDoc(input).pages
Headings == IF op = "load_pdf" THEN locals.boundaries ELSE outs[1]

\* The texts accepted on the page of index k, in list order.
HeadingsOn(k) ==
    LET idx == {j \in 1..Len(Headings) : Headings[j][1] = k}
    IN  [j \in 1..Cardinality(idx) |-> Headings[Nth(idx, j)][2]]

\* The glyph lines of a page whose mean glyph size is above 1.2 times the
\* page mean and whose text matches a heading pattern within 100 characters.
FontHits(page) ==
    {j \in 1..Len(page.glyphs) :
        /\ 10 * page.glyphs[j].size * GlyphCount(page.glyphs) > 12 * SizeSum(page.glyphs)
        /\ _is_chapter_heading(page.glyphs[j].text)}

\* The lines among the first five of the linear text that match.
PatternHits(page) ==
    LET lines == SplitLines(PageText(page))
    IN  {j \in 1..Len(lines) : j <= 5 /\ _is_chapter_heading(lines[j])}

\* C22: the detector accepts at most one heading per page: the page indices
\* of the accepted headings are strictly increasing, and a page on which
\* the font-size test accepted a heading has that heading alone, the
\* first-lines pattern check adding nothing.
C22_OneHeadingPerPage ==
    Detected =>
        /\ \A j, k \in 1..Len(Headings) : j < k => Headings[j][1] < Headings[k][1]
        /\ \A k \in 1..Len(DocPages) :
              FontHits(DocPages[k]) # {} =>
                  HeadingsOn(k - 1)
                    = << strip(DocPages[k].glyphs[Min(FontHits(DocPages[k]))].text) >>

\* A page whose first line matches a pattern and whose large-font heading
\* stands lower, followed by a page with a large-font heading.
C22_Witness ==
    /\ op = "_detect_chapters_by_headings" /\ pc = "done"
    /\ input = <<"both_differ", "font_first">>
    /\ outs[1] = << <<0, ChapterN(3)>>, <<1, ChapterN(1)>> >>

\* C23: per page the first match wins: the topmost large-font line that
\* matches a heading pattern within 100 characters; failing that, the first
\* of the first five lines of the linear text that does, whether or not
\* the font-size test found large text; failing that, nothing.  A matching
\* line after the fifth is not accepted by the pattern check.
C23_FirstMatchWins ==
    Detected =>
        \A k \in 1..Len(DocPages) :
            LET page == DocPages[k]
                lines == SplitLines(PageText(page))
            IN  HeadingsOn(k - 1) =
                    IF FontHits(page) # {}
                    THEN << strip(page.glyphs[Min(FontHits(page))].text) >>
                    ELSE IF PatternHits(page) # {}
                    THEN << strip(lines[Min(PatternHits(page))]) >>
                    ELSE <<>>

\* A page with large text that is no heading and a matching second line,
\* accepted by the pattern check, then a page whose only matching line is
\* the sixth, which has no heading.
C23_Witness ==
    /\ op = "_detect_chapters_by_headings" /\ pc = "done"
    /\ input = <<"large_other", "late">>
    /\ outs[1] = << <<0, ChapterN(4)>> >>

\* The calls of query that completed, and whether call k invoked the API.
Completed == {k \in 1..Len(outs) : outs[k].err = ""}
Invoked(k) == \E a \in 1..Len(api_calls) : api_calls[a].call = k
SamePair(j, k) ==
    outs[j].prompt = outs[k].prompt /\ outs[j].system_prompt = outs[k].system_prompt

\* C26: over the completed calls of query, a call that follows a completed
\* call with the same (prompt, system_prompt) does not invoke the API and
\* returns what that call returned, so the API is invoked at most once per
\* pair; and a call answered from the cache follows a completed call with
\* the same pair, so calls that differ in prompt or system_prompt share no
\* entry.
C26_CachedOncePerPair ==
    op = "query" =>
        /\ \A j, k \in Completed :
              (j < k /\ SamePair(j, k)) => ~Invoked(k) /\ outs[k].val = outs[j].val
        /\ \A k \in Completed :
              ~Invoked(k) => \E j \in Completed : j < k /\ SamePair(j, k)

\* The same prompt asked with no system prompt, with an empty one, and with
\* none again: two invocations, with equal messages, and one cache hit.
C26_Witness ==
    /\ op = "query" /\ Len(outs) = 3 /\ Completed = {1, 2, 3}
    /\ outs[1].prompt = QuotedA /\ SamePair(1, 3) /\ outs[2].prompt = QuotedA
    /\ outs[1].system_prompt = None /\ outs[2].system_prompt = <<>>
    /\ outs[1].val = ReplyChild /\ outs[2].val = ReplyAdult /\ outs[3].val = ReplyChild
    /\ Len(api_calls) = 2 /\ api_calls[1].messages = api_calls[2].messages

\* The ChapterAge estimated from the chapter at position k, if there is one.
EstimatedFrom(k) == {j \in 1..Len(origin) : origin[j] = k}

\* C24: in the book response of the UI handler the bounds shown with the
\* chapter at position k are those of the ChapterAge estimated from that
\* chapter, or null when none was estimated from it.
C24_AgesOfSameChapter ==
    (op = "do_GET" /\ responses # <<>> /\ responses[1].status = 200) =>
        \A k \in 1..Len(responses[1].body.chapters) :
            LET shown == responses[1].body.chapters[k]
            IN  IF EstimatedFrom(k) = {}
                THEN shown.age_min = <<>> /\ shown.age_max = <<>>
                ELSE \A j \in EstimatedFrom(k) :
                        /\ shown.age_min = chapter_ages[j].age_min
                        /\ shown.age_max = chapter_ages[j].age_max

\* C24 for books of which every chapter was estimated, where it holds.
C24_AgesWhenAllEstimated ==
    (op = "do_GET" /\ responses # <<>> /\ responses[1].status = 200
        /\ Len(chapter_ages) = Len(responses[1].body.chapters))
    => C24_AgesOfSameChapter

\* A response with two chapters, both estimated, with different bounds.
C24_BothEstimated ==
    /\ op = "do_GET" /\ responses # <<>> /\ responses[1].status = 200
    /\ Len(responses[1].body.chapters) = 2 /\ origin = <<1, 2>>
    /\ responses[1].body.chapters[1].age_min = <<5>>
    /\ responses[1].body.chapters[2].age_min = <<30>>

\* C25: the profile analyze_book returns holds one ChapterAge per chapter,
\* in chapter order: chapter_ages[k].chapter_title = chapters[k].title and
\* len(chapter_ages) = len(chapters), or min(len(chapters), max_chapters)
\* when the dev variant is given a cap.
C25_OneAgePerChapter ==
    (op = "analyze_book" /\ pc = "done" /\ outcome = "ok") =>
        LET n == Len(AnalysedBook.chapters)
            expected == IF input.variant = "dev" /\ input.capped
                        THEN (IF input.cap < n THEN input.cap ELSE n)
                        ELSE n
        IN  /\ Len(result.chapter_ages) = expected
            /\ \A k \in 1..Len(result.chapter_ages) :
                  /\ k <= n
                  /\ result.chapter_ages[k].chapter_title = AnalysedBook.chapters[k].title

\* C25 for books whose excerpts all reach the minimum, analysed without a
\* cap of 0, where it holds.
C25_OfLongExcerpts ==
    (/\ op = "analyze_book"
     /\ ~(input.capped /\ input.cap = 0)
     /\ \A k \in 1..Len(AnalysedBook.chapters) :
           StrLen(_get_first_paragraphs(AnalysedBook.chapters[k].text))
             >= MinExcerpt(input.variant))
    => C25_OneAgePerChapter

\* A profile of two chapters, each with its own estimate.
C25_TwoEstimated ==
    /\ op = "analyze_book" /\ pc = "done" /\ outcome = "ok"
    /\ input.kinds = <<"seventy", "long">> /\ input.variant = "book"
    /\ Len(result.chapter_ages) = 2
    /\ result.chapter_ages[1].age_min = <<30>> /\ result.chapter_ages[2].age_min = <<>>

\* File f matches the person: more than 0.66 of the words of the name and
\* at least 0.75 of the title's words longer than 3 characters occur in its
\* lower-cased name; a title without such a word matches no file.
MatchesPerson(f, person) ==
    LET name_parts == split(lower(person.name))
        book_parts == SelectSeq(split(lower(BookTitleOf(person))), LongWord)
        filename_lower == Chars(lower(f.name))
    IN  /\ name_parts # <<>> /\ book_parts # <<>>
        /\ 100 * Hits(name_parts, filename_lower) > 66 * Len(name_parts)
        /\ 100 * Hits(book_parts, filename_lower) >= 75 * Len(book_parts)

\* The status the request is to be answered with.
ExpectedStatus ==
    IF int(input.x).err # "" THEN 400
    ELSE IF int(input.x).val < 0 \/ int(input.x).val >= Len(PersonsYaml) THEN 404
    ELSE IF \A k \in 1..Len(input.files) : ~MatchesPerson(input.files[k], AskedPerson)
    THEN 404
    ELSE 200

\* C30: a GET of /api/book/<x> is answered with exactly one JSON response
\* and no exception leaves the handler: 400 when <x> is no integer, 404
\* when the index is out of range, 404 when no file matches the person (a
\* person with an empty title or without a word longer than 3 characters
\* included), 200 with the book otherwise.
C30_OneResponseNoEscape ==
    op = "do_GET" =>
        /\ Len(responses) <= 1
        /\ pc = "done" =>
              /\ outcome = "ok"
              /\ Len(responses) = 1
              /\ responses[1].status = ExpectedStatus

\* C30 for the requests the handler answered, where it holds.
C30_StatusWhenAnswered ==
    (op = "do_GET" /\ pc = "done" /\ outcome = "ok") =>
        Len(responses) = 1 /\ responses[1].status = ExpectedStatus

\* A person without a long word in the title, answered 404 while ./.books
\* holds no file.
C30_NoFiles ==
    /\ op = "do_GET" /\ pc = "done" /\ outcome = "ok"
    /\ input.x = IntStr(2) /\ input.files = <<>>
    /\ responses[1].status = 404

\* The text data among the first k events that lies outside every open
\* script, style or head element.
RECURSIVE DataOutside(_, _)
DataOutside(ev, k) ==
    IF k = 0 THEN <<>>
    ELSE IF ev[k][1] = "data" /\ OpenZones(ev, k - 1) = 0
         THEN Append(DataOutside(ev, k - 1), ev[k][2])
         ELSE DataOutside(ev, k - 1)

IsData(part) == part # Rep("\n", 1)

\* C27: in the markup extractor, after any events (an end tag of script,
\* style or head with no open start tag included) the skip depth is not
\* negative, and the text data outside every open script, style or head
\* element has all been appended.
C27_DepthAndOutsideText ==
    op = "_extract_text_from_html" =>
        /\ parser.depth >= 0
        /\ SelectSeq(parser.parts, IsData) = DataOutside(input, pos)

\* C27 for events in which every script, style or head end tag closes an
\* open element, where it holds.
C27_WhenZonesBalanced ==
    (/\ op = "_extract_text_from_html"
     /\ \A k \in 1..pos :
           (input[k][1] = "end" /\ input[k][2] \in SkipTags)
              => OpenZones(input, k - 1) > 0)
    => C27_DepthAndOutsideText

\* Text appended after a zone was opened and closed.
C27_AfterZone ==
    /\ op = "_extract_text_from_html" /\ pos = 3
    /\ input = << <<"start", "script">>, <<"end", "script">>, <<"data", Rep("A", 1)>> >>
    /\ parser.depth = 0 /\ parser.parts = << Rep("A", 1) >>

\* The pages chapter k was built from, and their text joined by newlines.
PagesOf(k) == cands[origin[k]][1]..(cands[origin[k]][2] - 1)
TextOfPages(first, end) ==
    _normalize_text(join(Rep("\n", 1),
                         [q \in 1..(end - first) |-> PageText(Pdf(input).pages[first + q])]))

\* C28: on the heading path every page gives its text to one chapter at
\* most and no text moves between ranges: a chapter holds the text of the
\* pages of its own range and of no other page, no two chapters share a
\* page, the pages before the first heading page and the pages of a dropped
\* range are in no chapter, and when every range is dropped the Document
\* has no chapter, the zero-heading fallback staying unused.
C28_PagesInOneChapter ==
    (op = "load_pdf" /\ locals.boundaries # <<>>) =>
        /\ \A k \in 1..Len(chapters) :
              /\ chapters[k].text
                    = TextOfPages(cands[origin[k]][1], cands[origin[k]][2])
              /\ \A p \in PagesOf(k) : p >= locals.boundaries[1][1]
              /\ \A d \in 1..Len(cands) :
                    d \notin Range(origin) =>
                        PagesOf(k) \cap (cands[d][1]..(cands[d][2] - 1)) = {}
        /\ \A j, k \in 1..Len(chapters) : j # k => PagesOf(j) \cap PagesOf(k) = {}
        /\ Returned =>
              /\ Len(cands) = Len(locals.boundaries)
              /\ result.chapters = chapters
              /\ Len(chapters) = Len(origin)

\* 30 pages with headings on pages 5, 10 and 15: the two ranges of five
\* pages are dropped and pages 0-14 are in no chapter.
C28_Witness ==
    /\ Returned /\ op = "load_pdf"
    /\ input.n = 30 /\ input.heads = {5, 10, 15} /\ input.body = "mid"
    /\ origin = <<3>> /\ Len(result.chapters) = 1
    /\ result.chapters[1].text = TextOfPages(15, 30)

\* "Chapter n" and "Section n", spelled out.
ChapterTitle(n) == Cat(Str(<<"C","h","a","p","t","e","r"," ">>), IntStr(n))
SectionTitle(n) == Cat(Str(<<"S","e","c","t","i","o","n"," ">>), IntStr(n))

\* Chapter k of an archive has the positional title: the lookup of line 213
\* found no label for its href and its markup holds no title.
ByPosition(k) ==
    /\ ~Truthy(DictGet(locals.ncx_titles, CandHref(origin[k])))
    /\ _extract_chapter_title(CandContent(origin[k]).val, None) = None

\* The chapters are those of the chunk fallback.
Chunked == op = "load_pdf" /\ locals.boundaries = <<>> /\ input.n > 20

\* The number in the positional title of chapter k.
FallbackNumber(k) ==
    IF op = "load_epub" THEN cands[origin[k]] + 1
    ELSE (cands[origin[k]][1] \div 10) + 1

\* C29: a positional title numbers the candidate by its place among all
\* candidates: the archive entry at index i of the spine list, entries
\* passed over counted, is "Chapter i+1", the chunk that starts at page 10k
\* is "Section k+1" whatever became of the chunks before it, and the numbers
\* grow along the chapters.
C29_NumberedByPosition ==
    /\ op = "load_epub" =>
          \A k \in 1..Len(chapters) :
              ByPosition(k) => chapters[k].title = ChapterTitle(FallbackNumber(k))
    /\ Chunked =>
          \A k \in 1..Len(chapters) :
              /\ cands[origin[k]][1] % 10 = 0
              /\ chapters[k].title = SectionTitle(FallbackNumber(k))
    /\ (op = "load_epub" \/ Chunked) =>
          \A j, k \in 1..Len(chapters) :
              (/\ j < k
               /\ op = "load_epub" => ByPosition(j) /\ ByPosition(k))
              => FallbackNumber(j) < FallbackNumber(k)

\* 30 pages without a heading whose first ten pages hold too little text:
\* the chunks kept are "Section 2" and "Section 3".
C29_Witness ==
    /\ Returned /\ op = "load_pdf" /\ input.body = "late" /\ input.n = 30
    /\ Len(cands) = 3 /\ origin = <<2, 3>>
    /\ result.chapters[1].title = SectionTitle(2)
    /\ result.chapters[2].title = SectionTitle(3)

\* An archive whose short first entry is passed over: the second entry is
\* "Chapter 2".
C29_SecondEntry ==
    /\ Returned /\ op = "load_epub" /\ input.nav = "none"
    /\ input.spine = <<"cover", "ch1">> /\ input.cover = "short"
    /\ Len(result.chapters) = 1 /\ result.chapters[1].title = ChapterTitle(2)


====
